---- MODULE Spec2Model ----
(***************************************************************************)
(* Little Bites menu system: the Apps Script backend (src/unnamed/part_000).*)
(*                                                                         *)
(* Text is modelled character by character as TLA+ strings (Len, SubSeq    *)
(* and \o act on them), so that the tuple codec, the aggregator and the    *)
(* shorthand formatter are computed the way the script computes them.      *)
(* A sheet is a sequence of rows and a row a sequence of cells; every cell *)
(* is the text the sheet holds (a count is its decimal text, an empty cell *)
(* is "").  Sheet rows and columns are 1-based here; the script's array    *)
(* indices are 0-based, so script index i is index i + 1 below.            *)
(*                                                                         *)
(* The script file declares doPost, doGet, updateTotalsRow, columnToLetter,*)
(* archiveAndClear and onOpen twice (lines 134-492 and again lines         *)
(* 1065-1361).  JavaScript binds a function name to its LAST declaration   *)
(* in the file, so the operations below are translated from the later      *)
(* declarations; the earlier ones never run.                               *)
(***************************************************************************)
EXTENDS Integers, Sequences, FiniteSets, TLC

VARIABLES
  pipe,           \* the codec, aggregator and formatter applied to inputs
  tabs,           \* the names of the spreadsheet's tabs
  sheets,         \* tab name -> rows of cells
  run,            \* the script execution in flight
  clock,          \* the wall clock: new Date() yields the text "now<clock>"
  done,           \* the last finished execution and what it told its caller
  posted,         \* the orders doPost answered with OK, in order
  lastRebuild,    \* journal, header and result of the last completed rebuild
  journalAtStart, \* the orders_json rows the deployment started with
  menuStatus,     \* the script property "menuStatus" ("" while it is not set)
  built,          \* one order taken through the row builders and the summary
  calls           \* the executions of doPost that run at the same time

(***************************************************************************)
(* JavaScript string primitives                                            *)
(***************************************************************************)
Char(s, i) == SubSeq(s, i, i)

IsSpace(c) == c = " "

IsDigit(c) == c \in {"0", "1", "2", "3", "4", "5", "6", "7", "8", "9"}

RECURSIVE trimStart(_)
trimStart(s) ==
  IF Len(s) > 0 /\ IsSpace(Char(s, 1)) THEN trimStart(SubSeq(s, 2, Len(s))) ELSE s

RECURSIVE trimEnd(_)
trimEnd(s) ==
  IF Len(s) > 0 /\ IsSpace(Char(s, Len(s))) THEN trimEnd(SubSeq(s, 1, Len(s) - 1)) ELSE s

trim(s) == trimEnd(trimStart(s))

startsWith(s, p) == Len(s) >= Len(p) /\ SubSeq(s, 1, Len(p)) = p

endsWith(s, p) == Len(s) >= Len(p) /\ SubSeq(s, Len(s) - Len(p) + 1, Len(s)) = p

\* s.includes(p)
includes(s, p) == \E i \in 1..(Len(s) - Len(p) + 1) : SubSeq(s, i, i + Len(p) - 1) = p

\* parts.join(sep)
RECURSIVE join(_, _)
join(parts, sep) ==
  IF Len(parts) = 0 THEN ""
  ELSE IF Len(parts) = 1 THEN parts[1]
  ELSE parts[1] \o sep \o join(Tail(parts), sep)

\* s.split(sep) for a non-empty literal separator: leftmost, non-overlapping
RECURSIVE splitFrom(_, _, _, _)
splitFrom(s, sep, from, i) ==
  IF i + Len(sep) - 1 > Len(s) THEN << SubSeq(s, from, Len(s)) >>
  ELSE IF SubSeq(s, i, i + Len(sep) - 1) = sep
       THEN << SubSeq(s, from, i - 1) >> \o splitFrom(s, sep, i + Len(sep), i + Len(sep))
       ELSE splitFrom(s, sep, from, i + 1)

split(s, sep) == splitFrom(s, sep, 1, 1)

\* arr.filter(Boolean) on an array of texts: "" (and null, modelled as "") is dropped
RECURSIVE filterBoolean(_)
filterBoolean(arr) ==
  IF Len(arr) = 0 THEN <<>>
  ELSE (IF Head(arr) = "" THEN <<>> ELSE << Head(arr) >>) \o filterBoolean(Tail(arr))

Digit(d) == Char("0123456789", d + 1)

\* the decimal text of a natural number, as template literals and the sheet render it
RECURSIVE NumStr(_)
NumStr(n) == IF n < 10 THEN Digit(n) ELSE NumStr(n \div 10) \o Digit(n % 10)

LowerAlphabet == "abcdefghijklmnopqrstuvwxyz"

UpperAlphabet == "ABCDEFGHIJKLMNOPQRSTUVWXYZ"

LetterIndex(c, alphabet) ==
  IF \E i \in 1..26 : Char(alphabet, i) = c
  THEN CHOOSE i \in 1..26 : Char(alphabet, i) = c
  ELSE 0

RECURSIVE toLowerCase(_)
toLowerCase(s) ==
  IF Len(s) = 0 THEN ""
  ELSE LET c == Char(s, 1)
           k == LetterIndex(c, UpperAlphabet)
       IN  (IF k > 0 THEN Char(LowerAlphabet, k) ELSE c) \o toLowerCase(SubSeq(s, 2, Len(s)))

RECURSIVE toUpperCase(_)
toUpperCase(s) ==
  IF Len(s) = 0 THEN ""
  ELSE LET c == Char(s, 1)
           k == LetterIndex(c, LowerAlphabet)
       IN  (IF k > 0 THEN Char(UpperAlphabet, k) ELSE c) \o toUpperCase(SubSeq(s, 2, Len(s)))

(***************************************************************************)
(* Option tuple codec: encoding (writeToOrders)                            *)
(***************************************************************************)
\* instances.map(opts => opts.length > 0 ? `(${opts.join(", ")})` : "")
RECURSIVE tupleStrings(_)
tupleStrings(instances) ==
  IF Len(instances) = 0 THEN <<>>
  ELSE << (IF Len(Head(instances)) > 0 THEN "(" \o join(Head(instances), ", ") \o ")" ELSE "") >>
       \o tupleStrings(Tail(instances))

\* an options cell that keeps the empty text of an instance without options
optionsString_keepsEmpty(instances) == join(tupleStrings(instances), ", ")

\* ....filter(Boolean).join(", "): the options cell of one item of one order;
\* `instances` holds the already filtered option lists
optionsString(instances) == join(filterBoolean(tupleStrings(instances)), ", ")

(***************************************************************************)
(* Aggregator: aggregateOptions                                            *)
(***************************************************************************)
\* the first index >= i of s that holds no whitespace (Len(s) + 1 if none)
RECURSIVE skipSpaces(_, _)
skipSpaces(s, i) == IF i <= Len(s) /\ IsSpace(Char(s, i)) THEN skipSpaces(s, i + 1) ELSE i

\* /\),\s*\(/ matched at position i: the index of the last matched character, 0 if no match
tupleSeparatorEnd(s, i) ==
  IF i + 1 <= Len(s) /\ Char(s, i) = ")" /\ Char(s, i + 1) = ","
  THEN LET j == skipSpaces(s, i + 2)
       IN  IF j <= Len(s) /\ Char(s, j) = "(" THEN j ELSE 0
  ELSE 0

\* optionString.split(/\),\s*\(/)
RECURSIVE splitTuplesFrom(_, _, _)
splitTuplesFrom(s, from, i) ==
  IF i > Len(s) THEN << SubSeq(s, from, Len(s)) >>
  ELSE LET e == tupleSeparatorEnd(s, i)
       IN  IF e > 0
           THEN << SubSeq(s, from, i - 1) >> \o splitTuplesFrom(s, e + 1, e + 1)
           ELSE splitTuplesFrom(s, from, i + 1)

\* the naive decoding: every ", " taken for a tuple boundary
splitTuples_onComma(s) == split(s, ", ")

splitTuples(s) == splitTuplesFrom(s, 1, 1)

\* the body of optionTuples.forEach: the fragment with its parentheses restored
restoreTuple(fragment, index, count) ==
  LET t0 == trim(fragment)
      t1 == IF index > 1 /\ ~startsWith(t0, "(") THEN "(" \o t0 ELSE t0
      t2 == IF index < count /\ ~endsWith(t1, ")") THEN t1 \o ")" ELSE t1
      t3 == IF ~startsWith(t2, "(") THEN "(" \o t2 ELSE t2
  IN  IF ~endsWith(t3, ")") THEN t3 \o ")" ELSE t3

\* the tuples one options cell contributes, in order (empty fragments are skipped)
RECURSIVE restoreAll(_, _, _)
restoreAll(fragments, index, count) ==
  IF index > count THEN <<>>
  ELSE (IF trim(fragments[index]) = "" THEN <<>>
        ELSE << restoreTuple(fragments[index], index, count) >>)
       \o restoreAll(fragments, index + 1, count)

\* a cell the script reads as falsy: empty, or the number 0
Falsy(cell) == cell = "" \/ cell = "0"

decodeCell(optionsCell) ==
  IF Falsy(optionsCell) THEN <<>>
  ELSE LET fragments == splitTuples(trim(optionsCell))
       IN  restoreAll(fragments, 1, Len(fragments))

\* every tuple of the column, rows top to bottom and tuples left to right
RECURSIVE columnTuples(_, _)
columnTuples(dataRows, columnIndex) ==
  IF Len(dataRows) = 0 THEN <<>>
  ELSE (IF columnIndex <= Len(Head(dataRows))
        THEN decodeCell(Head(dataRows)[columnIndex]) ELSE <<>>)
       \o columnTuples(Tail(dataRows), columnIndex)

\* optionCounts[trimmed] = (optionCounts[trimmed] || 0) + 1 over all tuples:
\* the entries <<tuple, count>> in the order in which the keys were inserted
RECURSIVE countTuples(_, _)
countTuples(tuples, entries) ==
  IF Len(tuples) = 0 THEN entries
  ELSE LET t == Head(tuples)
           hit == {k \in 1..Len(entries) : entries[k][1] = t}
       IN  countTuples(Tail(tuples),
             IF hit = {} THEN Append(entries, <<t, 1>>)
             ELSE [k \in 1..Len(entries) |->
                     IF k \in hit THEN <<t, entries[k][2] + 1>> ELSE entries[k]])

\* a comparator that also moves an entry before the entries of equal count
countBefore_orEqual(a, b) == a[2] >= b[2]

\* comparator (a, b) => b[1] - a[1]: a is placed before b when its count is higher
countBefore(a, b) == a[2] > b[2]

\* Array.prototype.sort is stable: insert each entry after the entries that do
\* not have to follow it
RECURSIVE insertSorted(_, _)
insertSorted(sorted, e) ==
  IF Len(sorted) = 0 THEN << e >>
  ELSE IF countBefore(e, Head(sorted)) THEN << e >> \o sorted
  ELSE << Head(sorted) >> \o insertSorted(Tail(sorted), e)

RECURSIVE sortEntries(_, _)
sortEntries(entries, sorted) ==
  IF Len(entries) = 0 THEN sorted
  ELSE sortEntries(Tail(entries), insertSorted(sorted, Head(entries)))

\* .map(([tuple, count]) => `${count}x${tuple}`)
renderEntries(entries) == [k \in 1..Len(entries) |-> NumStr(entries[k][2]) \o "x" \o entries[k][1]]

aggregateOptions(dataRows, columnIndex) ==
  join(renderEntries(sortEntries(countTuples(columnTuples(dataRows, columnIndex), <<>>), <<>>)), ", ")

(***************************************************************************)
(* Kitchen shorthand: abbreviate, formatKitchenShorthand                   *)
(***************************************************************************)
\* the em dash the script shows for "no options"
NoOptionsMarker == "--"

abbreviations ==
  << <<"egg", "E">>, <<"no egg", "NE">>, <<"croissant", "CR">>, <<"muffin", "MF">>,
     <<"bagel", "BG">>, <<"wrap", "W">>, <<"salad", "S">>, <<"salad bowl", "SB">>,
     <<"chicken", "CH">>, <<"no chicken", "NCH">>, <<"dressing", "D">>,
     <<"no dressing", "ND">>, <<"hot", "H">>, <<"iced", "I">>, <<"small", "SM">>,
     <<"medium", "MD">>, <<"large", "LG">>, <<"sugar", "SU">>, <<"no sugar", "NS">> >>

\* abbreviations[lowerText] also finds what a plain object inherits; joined
\* into the output such a value is rendered as text
inheritedProperties ==
  << <<"constructor", "function Object() { [native code] }">>,
     <<"__proto__", "[object Object]">> >>

lookup(table, key) ==
  IF \E k \in 1..Len(table) : table[k][1] = key
  THEN table[CHOOSE k \in 1..Len(table) : table[k][1] = key][2]
  ELSE ""

abbreviate(text) ==
  IF text = "" THEN ""
  ELSE LET trimmed == trim(text)
           lowerText == toLowerCase(trimmed)
       IN  IF lookup(abbreviations, lowerText) # "" THEN lookup(abbreviations, lowerText)
           ELSE IF lookup(inheritedProperties, lowerText) # ""
                THEN lookup(inheritedProperties, lowerText)
           ELSE IF Len(trimmed) <= 3 THEN toUpperCase(trimmed)
           ELSE toUpperCase(SubSeq(trimmed, 1, 2))

\* the length of the run of digits s starts with
RECURSIVE digitRun(_, _)
digitRun(s, i) == IF i <= Len(s) /\ IsDigit(Char(s, i)) THEN digitRun(s, i + 1) ELSE i - 1

\* a pattern that does not ask for the digits: /^(\d*)x\((.+)\)$/
matchesCountTuple_noDigits(part) ==
  LET d == digitRun(part, 1)
  IN  /\ Len(part) >= d + 4
      /\ SubSeq(part, d + 1, d + 2) = "x("
      /\ Char(part, Len(part)) = ")"

\* part.match(/^(\d+)x\((.+)\)$/)
matchesCountTuple(part) ==
  LET d == digitRun(part, 1)
  IN  /\ d >= 1
      /\ Len(part) >= d + 4
      /\ SubSeq(part, d + 1, d + 2) = "x("
      /\ Char(part, Len(part)) = ")"

shorthandPart(part) ==
  IF ~matchesCountTuple(part) THEN part
  ELSE LET d == digitRun(part, 1)
           count == SubSeq(part, 1, d)
           optionsList == SubSeq(part, d + 3, Len(part) - 1)
           opts == split(optionsList, ", ")
       IN  count \o "x(" \o join([k \in 1..Len(opts) |-> abbreviate(opts[k])], ",") \o ")"

formatKitchenShorthand(optionsString_) ==
  IF Falsy(optionsString_) THEN NoOptionsMarker
  ELSE LET parts == split(optionsString_, ", ")
       IN  join([k \in 1..Len(parts) |-> shorthandPart(parts[k])], ", ")

(***************************************************************************)
(* Order payloads and their JSON text                                      *)
(*                                                                         *)
(* A line item is a record: name, qty (hasQty tells whether the key is     *)
(* there), instances (a list of option-slot lists, hasInstances) and the   *)
(* legacy selectedOptions (hasSelected).  An unselected slot, null in the  *)
(* payload, is "".  The payload reaches doPost as JSON text, so it holds   *)
(* JSON values only.                                                       *)
(***************************************************************************)
\* s.charAt(i - 1): "" outside the text
charAt(s, i) == IF i >= 1 /\ i <= Len(s) THEN SubSeq(s, i, i) ELSE ""

\* the characters of s at positions a..b that exist
substring(s, a, b) ==
  LET lo == IF a < 1 THEN 1 ELSE a
      hi == IF b > Len(s) THEN Len(s) ELSE b
  IN  IF lo > hi THEN "" ELSE SubSeq(s, lo, hi)

Quote == "\""

jsonSlot(o) == IF o = "" THEN "null" ELSE Quote \o o \o Quote

jsonSlots(opts) == "[" \o join([k \in 1..Len(opts) |-> jsonSlot(opts[k])], ",") \o "]"

jsonInstance(inst) == "{" \o Quote \o "options" \o Quote \o ":" \o jsonSlots(inst) \o "}"

jsonItem(item) ==
  "{" \o join(
      << Quote \o "name" \o Quote \o ":" \o Quote \o item.name \o Quote >>
      \o (IF item.hasQty THEN << Quote \o "qty" \o Quote \o ":" \o NumStr(item.qty) >> ELSE <<>>)
      \o (IF item.hasInstances
          THEN << Quote \o "instances" \o Quote \o ":[" \o
                  join([k \in 1..Len(item.instances) |-> jsonInstance(item.instances[k])], ",")
                  \o "]" >>
          ELSE <<>>)
      \o (IF item.hasSelected
          THEN << Quote \o "selectedOptions" \o Quote \o ":" \o jsonSlots(item.selectedOptions) >>
          ELSE <<>>), ",") \o "}"

\* JSON.stringify(payload.items)
JSONstringify(items) == "[" \o join([k \in 1..Len(items) |-> jsonItem(items[k])], ",") \o "]"

\* A parse result: ok, the value v and the position p after it.
Failed == [ok |-> FALSE, v |-> <<>>, p |-> 0]

Parsed(v, p) == [ok |-> TRUE, v |-> v, p |-> p]

RECURSIVE closingQuote(_, _)
closingQuote(s, i) ==
  IF i > Len(s) THEN 0 ELSE IF Char(s, i) = Quote THEN i ELSE closingQuote(s, i + 1)

stringEnd(s, p, q) == IF q > 0 THEN Parsed(substring(s, p + 1, q - 1), q + 1) ELSE Failed

\* a JSON string without escapes
parseString(s, p) ==
  stringEnd(s, p, IF charAt(s, p) = Quote THEN closingQuote(s, p + 1) ELSE 0)

RECURSIVE decimal(_, _, _, _)
decimal(s, i, e, acc) ==
  IF i > e THEN acc
  ELSE decimal(s, i + 1, e, 10 * acc + (CHOOSE d \in 0..9 : Digit(d) = Char(s, i)))

numberEnd(s, p, e) == IF e >= p THEN Parsed(decimal(s, p, e, 0), e + 1) ELSE Failed

\* a JSON number written with digits only
parseNumber(s, p) == numberEnd(s, p, digitRun(s, p))

\* an option slot: a string, or null (read as "")
parseSlot(s, p) ==
  IF substring(s, p, p + 3) = "null" THEN Parsed("", p + 4) ELSE parseString(s, p)

RECURSIVE parseElement(_, _, _)
RECURSIVE parseListRest(_, _, _, _)

listStep(s, kind, acc, e) ==
  IF ~e.ok THEN Failed
  ELSE IF charAt(s, e.p) = "," THEN parseListRest(s, e.p + 1, kind, Append(acc, e.v))
  ELSE IF charAt(s, e.p) = "]" THEN Parsed(Append(acc, e.v), e.p + 1)
  ELSE Failed

\* the elements of a JSON array after its "["
parseListRest(s, p, kind, acc) == listStep(s, kind, acc, parseElement(s, p, kind))

\* a JSON array of option slots, of instances or of line items
parseList(s, p, kind) ==
  IF charAt(s, p) # "[" THEN Failed
  ELSE IF charAt(s, p + 1) = "]" THEN Parsed(<<>>, p + 2)
  ELSE parseListRest(s, p + 1, kind, <<>>)

closeObject(s, e) == IF e.ok /\ charAt(s, e.p) = "}" THEN Parsed(e.v, e.p + 1) ELSE Failed

OptionsKey == "{" \o Quote \o "options" \o Quote \o ":"

\* an instance object {"options":[...]}
parseInstance(s, p) ==
  IF substring(s, p, p + Len(OptionsKey) - 1) # OptionsKey THEN Failed
  ELSE closeObject(s, parseList(s, p + Len(OptionsKey), "slot"))

\* an object with none of the keys the script reads
EmptyItem ==
  [name |-> "undefined", hasQty |-> FALSE, qty |-> 0, hasInstances |-> FALSE,
   instances |-> <<>>, hasSelected |-> FALSE, selectedOptions |-> <<>>]

RECURSIVE parseMembers(_, _, _)

withMember(item, key, v) ==
  IF key = "name" THEN [item EXCEPT !.name = v]
  ELSE IF key = "qty" THEN [item EXCEPT !.hasQty = TRUE, !.qty = v]
  ELSE IF key = "instances" THEN [item EXCEPT !.hasInstances = TRUE, !.instances = v]
  ELSE [item EXCEPT !.hasSelected = TRUE, !.selectedOptions = v]

memberValue(s, key) ==
  IF ~key.ok \/ charAt(s, key.p) # ":" THEN Failed
  ELSE IF key.v = "name" THEN parseString(s, key.p + 1)
  ELSE IF key.v = "qty" THEN parseNumber(s, key.p + 1)
  ELSE IF key.v = "instances" THEN parseList(s, key.p + 1, "instance")
  ELSE IF key.v = "selectedOptions" THEN parseList(s, key.p + 1, "slot")
  ELSE Failed

memberStep(s, item, key, val) ==
  IF ~val.ok THEN Failed
  ELSE IF charAt(s, val.p) = "," THEN parseMembers(s, val.p + 1, withMember(item, key.v, val.v))
  ELSE IF charAt(s, val.p) = "}" THEN Parsed(withMember(item, key.v, val.v), val.p + 1)
  ELSE Failed

membersAt(s, item, key) == memberStep(s, item, key, memberValue(s, key))

\* the members of an item object after its "{"
parseMembers(s, p, item) == membersAt(s, item, parseString(s, p))

\* a line item object
parseItem(s, p) ==
  IF charAt(s, p) # "{" THEN Failed
  ELSE IF charAt(s, p + 1) = "}" THEN Parsed(EmptyItem, p + 2)
  ELSE parseMembers(s, p + 1, EmptyItem)

parseElement(s, p, kind) ==
  IF kind = "slot" THEN parseSlot(s, p)
  ELSE IF kind = "instance" THEN parseInstance(s, p)
  ELSE parseItem(s, p)

itemsEnd(s, e) == IF e.ok /\ e.p = Len(s) + 1 THEN [ok |-> TRUE, v |-> e.v]
                  ELSE [ok |-> FALSE, v |-> <<>>]

\* JSON.parse(jsonStr) followed by the use of the result as an array of line
\* items: ok is FALSE when the text is no JSON (JSON.parse throws) and when it
\* is no array of item objects (payload.items.forEach throws).  The texts of
\* this model are those JSONstringify writes, cut-off or non-JSON text, and
\* "null".
JSONparse(s) == itemsEnd(s, parseList(s, 1, "item"))

(***************************************************************************)
(* Sheets                                                                  *)
(***************************************************************************)
\* the value of a cell of a row; "" beyond the row's last cell
Cell(row, k) == IF k >= 1 /\ k <= Len(row) THEN row[k] ELSE ""

RECURSIVE lastFilled(_, _)
lastFilled(row, k) == IF k = 0 \/ row[k] # "" THEN k ELSE lastFilled(row, k - 1)

\* sheet.getLastColumn(): the last column that holds content in some row
RECURSIVE getLastColumn(_)
getLastColumn(rows) ==
  IF Len(rows) = 0 THEN 0
  ELSE LET a == lastFilled(Head(rows), Len(Head(rows)))
           b == getLastColumn(Tail(rows))
       IN  IF a > b THEN a ELSE b

\* sheet.getLastRow()
getLastRow(rows) == Len(rows)

\* sheet.getRange(1, 1, 1, sheet.getLastColumn()).getValues()[0]
headerRow(rows) == [k \in 1..getLastColumn(rows) |-> Cell(rows[1], k)]

\* an index that falls on the last position when x is not in arr
indexOf_orLast(arr, x) ==
  IF \E k \in 1..Len(arr) : arr[k] = x
  THEN CHOOSE k \in 1..Len(arr) : arr[k] = x /\ \A j \in 1..(k - 1) : arr[j] # x
  ELSE Len(arr)

\* arr.indexOf(x) + 1: the first position that holds x, 0 when there is none
indexOf(arr, x) ==
  IF \E k \in 1..Len(arr) : arr[k] = x
  THEN CHOOSE k \in 1..Len(arr) : arr[k] = x /\ \A j \in 1..(k - 1) : arr[j] # x
  ELSE 0

\* item[key] of the object built by headers.forEach((h, i) => item[h] = row[i]):
\* the cell under the last header equal to key, "" (undefined) when none is
menuField(headers, row, key) ==
  IF \E k \in 1..Len(headers) : headers[k] = key
  THEN Cell(row, CHOOSE k \in 1..Len(headers) :
                   headers[k] = key /\ \A j \in (k + 1)..Len(headers) : headers[j] # key)
  ELSE ""

baseHeaders == << "Date", "Name", "Phone", "Delivery", "Email" >>

RECURSIVE initializeOrdersHeaders_items(_, _)
initializeOrdersHeaders_items(headers, menuData) ==
  IF Len(menuData) = 0 THEN <<>>
  ELSE LET name == menuField(headers, Head(menuData), "name")
           options == menuField(headers, Head(menuData), "options")
       IN  (IF name = "" THEN <<>>
            ELSE IF options # "" /\ trim(options) # "" THEN << name, name \o " - options" >>
            ELSE << name >>)
           \o initializeOrdersHeaders_items(headers, Tail(menuData))

\* a header row with the item columns before the base columns
initializeOrdersHeaders_itemsFirst(menu) ==
  << initializeOrdersHeaders_items(Head(menu), Tail(menu)) \o baseHeaders >>

\* the rows of the sheet after initializeOrdersHeaders(sheet)
initializeOrdersHeaders(menu) ==
  << baseHeaders \o initializeOrdersHeaders_items(Head(menu), Tail(menu)) >>

RECURSIVE initializeOrders2Headers_items(_, _)
initializeOrders2Headers_items(headers, menuData) ==
  IF Len(menuData) = 0 THEN <<>>
  ELSE LET name == menuField(headers, Head(menuData), "name")
           options == menuField(headers, Head(menuData), "options")
       IN  (IF name = "" THEN <<>>
            ELSE IF options # "" /\ trim(options) # "" THEN << name, name \o " - options" >>
            ELSE << name >>)
           \o initializeOrders2Headers_items(headers, Tail(menuData))

\* the rows of the sheet after initializeOrders2Headers(sheet)
initializeOrders2Headers(menu) ==
  << baseHeaders \o initializeOrders2Headers_items(Head(menu), Tail(menu)) >>

\* String.fromCharCode(temp + 65) is the letter at temp + 1 of the alphabet
RECURSIVE columnToLetter(_)
columnToLetter(column) ==
  IF column > 0
  THEN LET temp == (column - 1) % 26
       IN  columnToLetter((column - temp - 1) \div 26) \o Char(UpperAlphabet, temp + 1)
  ELSE ""

\* the rows left after the loop that deletes, from the bottom up to row 2,
\* every row whose first cell is "TOTALS"
RECURSIVE deleteTotalsRows(_, _)
deleteTotalsRows(rows, i) ==
  IF i < 2 THEN rows
  ELSE deleteTotalsRows(
         IF Cell(rows[i], 1) = "TOTALS"
         THEN SubSeq(rows, 1, i - 1) \o SubSeq(rows, i + 1, Len(rows))
         ELSE rows, i - 1)

sumRangeEnd_beforeLast(rows) == getLastRow(rows) - 1

\* currentLastRow, the row the SUM ranges end at: sheet.getLastRow() once the
\* old TOTALS rows are deleted
sumRangeEnd(rows) == getLastRow(rows)

\* totalsData: "TOTALS", four blanks and a SUM formula for every further
\* column, its range from row 2 to currentLastRow
updateTotalsRow_totalsData(headers, currentLastRow) ==
  [k \in 1..Len(headers) |->
     IF k <= 5 THEN (IF k = 1 THEN "TOTALS" ELSE "")
     ELSE "=SUM(" \o columnToLetter(k) \o "2:" \o columnToLetter(k)
          \o NumStr(currentLastRow) \o ")"]

\* a totals row appended below the rows there are, old TOTALS rows kept
updateTotalsRow_keepsOld(rows) ==
  Append(rows, updateTotalsRow_totalsData(headerRow(rows), getLastRow(rows)))

\* the rows of the sheet after updateTotalsRow(sheet)
updateTotalsRow(rows) ==
  LET kept == deleteTotalsRows(rows, getLastRow(rows))
  IN  Append(kept, updateTotalsRow_totalsData(headerRow(rows), sumRangeEnd(kept)))

(***************************************************************************)
(* Building a kitchen row from an order                                    *)
(*                                                                         *)
(* itemOptionsMap is an object keyed by item name; Object.keys lists the   *)
(* names in the order they were first inserted.  It is a sequence of       *)
(* [name, instances] records here.                                         *)
(***************************************************************************)
hasKey(map, name) == \E k \in 1..Len(map) : map[k].name = name

\* itemOptionsMap[name] = added: the instances collected before are dropped
pushAll_replaces(map, name, added) ==
  [k \in 1..Len(map) |->
     IF map[k].name = name THEN [map[k] EXCEPT !.instances = added] ELSE map[k]]

\* itemOptionsMap[name].push(...added)
pushAll(map, name, added) ==
  [k \in 1..Len(map) |->
     IF map[k].name = name THEN [map[k] EXCEPT !.instances = @ \o added] ELSE map[k]]

\* new Array(headers.length).fill("") with the five base cells assigned
baseCells(headers, date, payload) ==
  [k \in 1..(IF Len(headers) > 5 THEN Len(headers) ELSE 5) |->
     IF k = 1 THEN date
     ELSE IF k = 2 THEN payload.name
     ELSE IF k = 3 THEN payload.phone
     ELSE IF k = 4 THEN payload.delivery
     ELSE IF k = 5 THEN payload.email
     ELSE ""]

\* a collector that takes every line item for a legacy one: qty copies of its
\* selectedOptions
writeToOrders_instances_byQty(item) ==
  [i \in 1..(IF item.hasQty THEN item.qty ELSE 0) |->
     IF item.hasSelected THEN filterBoolean(item.selectedOptions) ELSE <<>>]

\* writeToOrders: the option lists one line item pushes to itemOptionsMap,
\* one per instance or, without instances, qty times its selectedOptions
writeToOrders_instances(item) ==
  IF item.hasInstances /\ Len(item.instances) > 0
  THEN [k \in 1..Len(item.instances) |-> filterBoolean(item.instances[k])]
  ELSE LET qty == IF item.hasQty THEN item.qty ELSE 0
           instanceOptions ==
             IF item.hasSelected THEN filterBoolean(item.selectedOptions) ELSE <<>>
       IN  [i \in 1..qty |-> instanceOptions]

\* writeToOrders: payload.items.forEach(...) filling itemOptionsMap
RECURSIVE writeToOrders_collect(_, _)
writeToOrders_collect(items, map) ==
  IF Len(items) = 0 THEN map
  ELSE LET item == Head(items)
           m == IF hasKey(map, item.name) THEN map
                ELSE Append(map, [name |-> item.name, instances |-> <<>>])
       IN  writeToOrders_collect(Tail(items),
                                 pushAll(m, item.name, writeToOrders_instances(item)))

\* writeToOrders: Object.keys(itemOptionsMap).forEach(...) filling rowData
RECURSIVE writeToOrders_fill(_, _, _)
writeToOrders_fill(map, headers, rowData) ==
  IF Len(map) = 0 THEN rowData
  ELSE LET instances == Head(map).instances
           itemColIndex == indexOf(headers, Head(map).name)
           counted == IF itemColIndex # 0
                      THEN [rowData EXCEPT ![itemColIndex] = NumStr(Len(instances))]
                      ELSE rowData
           optionsColIndex == indexOf(headers, Head(map).name \o " - options")
           filled == IF optionsColIndex # 0
                     THEN [counted EXCEPT ![optionsColIndex] = optionsString(instances)]
                     ELSE counted
       IN  writeToOrders_fill(Tail(map), headers, filled)

\* the rows of the sheet after writeToOrders(sheet, payload) at time date
writeToOrders(rows, payload, date) ==
  LET headers == headerRow(rows)
      rowData == writeToOrders_fill(writeToOrders_collect(payload.items, <<>>), headers,
                                    baseCells(headers, date, payload))
  IN  updateTotalsRow(Append(rows, rowData))

\* writeToOrders2: payload.items.forEach(...) filling itemOptionsMap
RECURSIVE writeToOrders2_collect(_, _)
writeToOrders2_collect(items, map) ==
  IF Len(items) = 0 THEN map
  ELSE LET item == Head(items)
           m == IF hasKey(map, item.name) THEN map
                ELSE Append(map, [name |-> item.name, instances |-> <<>>])
           added ==
             IF item.hasInstances /\ Len(item.instances) > 0
             THEN [k \in 1..Len(item.instances) |-> filterBoolean(item.instances[k])]
             ELSE LET qty == IF item.hasQty THEN item.qty ELSE 0
                      instanceOptions ==
                        IF item.hasSelected THEN filterBoolean(item.selectedOptions) ELSE <<>>
                  IN  [k \in 1..qty |-> instanceOptions]
       IN  writeToOrders2_collect(Tail(items), pushAll(m, item.name, added))

\* writeToOrders2: the options cell text of one item's instances
writeToOrders2_optionsString(instances) ==
  join(filterBoolean([k \in 1..Len(instances) |->
         IF Len(instances[k]) > 0 THEN "(" \o join(instances[k], ", ") \o ")" ELSE ""]), ", ")

\* writeToOrders2: Object.keys(itemOptionsMap).forEach(...) filling rowData
RECURSIVE writeToOrders2_fill(_, _, _)
writeToOrders2_fill(map, headers, rowData) ==
  IF Len(map) = 0 THEN rowData
  ELSE LET instances == Head(map).instances
           itemColIndex == indexOf(headers, Head(map).name)
           counted == IF itemColIndex # 0
                      THEN [rowData EXCEPT ![itemColIndex] = NumStr(Len(instances))]
                      ELSE rowData
           optionsColIndex == indexOf(headers, Head(map).name \o " - options")
           filled == IF optionsColIndex # 0
                     THEN [counted EXCEPT
                             ![optionsColIndex] = writeToOrders2_optionsString(instances)]
                     ELSE counted
       IN  writeToOrders2_fill(Tail(map), headers, filled)

\* the rows of the sheet after writeToOrders2(sheet, payload) at time date
writeToOrders2(rows, payload, date) ==
  LET headers == headerRow(rows)
      rowData == writeToOrders2_fill(writeToOrders2_collect(payload.items, <<>>), headers,
                                     baseCells(headers, date, payload))
  IN  updateTotalsRow(Append(rows, rowData))

\* buildOrdersFromJson: payload.items.forEach(...) filling itemOptionsMap
RECURSIVE replay_collect(_, _)
replay_collect(items, map) ==
  IF Len(items) = 0 THEN map
  ELSE LET item == Head(items)
           m == IF hasKey(map, item.name) THEN map
                ELSE Append(map, [name |-> item.name, instances |-> <<>>])
           added ==
             IF item.hasInstances /\ Len(item.instances) > 0
             THEN [k \in 1..Len(item.instances) |-> filterBoolean(item.instances[k])]
             ELSE LET qty == IF item.hasQty THEN item.qty ELSE 0
                      instanceOptions ==
                        IF item.hasSelected THEN filterBoolean(item.selectedOptions) ELSE <<>>
                  IN  [q \in 1..qty |-> instanceOptions]
       IN  replay_collect(Tail(items), pushAll(m, item.name, added))

\* buildOrdersFromJson: the options cell text of one item's instances
replay_optionsString(instances) ==
  join(filterBoolean([k \in 1..Len(instances) |->
         IF Len(instances[k]) > 0 THEN "(" \o join(instances[k], ", ") \o ")" ELSE ""]), ", ")

\* buildOrdersFromJson: Object.keys(itemOptionsMap).forEach(...) filling rowData
RECURSIVE replay_fill(_, _, _)
replay_fill(map, headers, rowData) ==
  IF Len(map) = 0 THEN rowData
  ELSE LET instances == Head(map).instances
           itemColIndex == indexOf(headers, Head(map).name)
           counted == IF itemColIndex # 0
                      THEN [rowData EXCEPT ![itemColIndex] = NumStr(Len(instances))]
                      ELSE rowData
           optionsColIndex == indexOf(headers, Head(map).name \o " - options")
           filled == IF optionsColIndex # 0
                     THEN [counted EXCEPT ![optionsColIndex] = replay_optionsString(instances)]
                     ELSE counted
       IN  replay_fill(Tail(map), headers, filled)

originalDate_wallClock(row, now) == now

\* the Date cell of a replayed row: row[0] of the orders_json row
originalDate(row, now) == Cell(row, 1)

\* the row buildOrdersFromJson builds from an orders_json row and its parsed
\* items under the given headers
replayRow(headers, row, items, now) ==
  replay_fill(replay_collect(items, <<>>), headers,
              baseCells(headers, originalDate(row, now),
                        [name |-> Cell(row, 2), phone |-> Cell(row, 3),
                         delivery |-> Cell(row, 4), email |-> Cell(row, 5)]))

replayParsed_appendsSkipped(rows, row, parsed, now) ==
  [rows |-> Append(rows, replayRow(headerRow(rows), row, parsed.v, now)),
   replayed |-> parsed.ok]

replayParsed(rows, row, parsed, now) ==
  IF ~parsed.ok THEN [rows |-> rows, replayed |-> FALSE]
  ELSE [rows |-> Append(rows, replayRow(headerRow(rows), row, parsed.v, now)),
        replayed |-> TRUE]

\* what the callback of dataRows.forEach does with one orders_json row while
\* the Orders sheet holds rows: the rows afterwards and whether the entry
\* was replayed (replayedCount++).  A throw of JSON.parse or of forEach is
\* caught and the entry skipped.
replayEntry(rows, row, now) ==
  IF Cell(row, 6) = "" \/ trim(Cell(row, 6)) = "" THEN [rows |-> rows, replayed |-> FALSE]
  ELSE replayParsed(rows, row, JSONparse(Cell(row, 6)), now)

\* doPost: the human-readable text of one line item
readableItem(item) ==
  IF item.hasInstances /\ Len(item.instances) > 0
  THEN join([k \in 1..Len(item.instances) |->
               LET opts == join(filterBoolean(item.instances[k]), ", ")
               IN  item.name \o (IF opts # "" THEN " (" \o opts \o ")" ELSE "")], " | ")
  ELSE LET opts == join(filterBoolean(item.selectedOptions), ", ")
       IN  (IF item.hasQty THEN NumStr(item.qty) ELSE "undefined") \o "x " \o item.name
           \o (IF opts # "" THEN " (" \o opts \o ")" ELSE "")

\* doPost: readableItems
readableItems(items) == join([k \in 1..Len(items) |-> readableItem(items[k])], " | ")

\* item.selectedOptions.filter throws a TypeError for a line item that has
\* neither instances nor selectedOptions
readableItemsThrows(items) ==
  \E k \in 1..Len(items) :
    /\ ~(items[k].hasInstances /\ Len(items[k].instances) > 0)
    /\ ~items[k].hasSelected

\* doPost: the row appended to the "Orders" tab
rawOrderRow(date, payload) ==
  << date, payload.name, payload.phone, payload.delivery, payload.email,
     JSONstringify(payload.items), readableItems(payload.items), payload.buddy,
     payload.comments >>

(***************************************************************************)
(* The spreadsheet and the executions of the script                        *)
(***************************************************************************)
\* the Menu tab of the setup guide: header row, an item with options, an
\* item without, and a row without a name
MenuSheet ==
  << << "category", "name", "price", "options", "description" >>,
     << "Breakfast", "sandwich", "8.50", "egg/no egg|croissant/muffin", "" >>,
     << "Snacks", "cookie", "2.00", "", "" >>,
     << "", "", "", "", "" >> >>

Item(name, qty, instances) ==
  [name |-> name, hasQty |-> TRUE, qty |-> qty, hasInstances |-> TRUE,
   instances |-> instances, hasSelected |-> FALSE, selectedOptions |-> <<>>]

LegacyItem(name, qty, selectedOptions) ==
  [name |-> name, hasQty |-> TRUE, qty |-> qty, hasInstances |-> FALSE,
   instances |-> <<>>, hasSelected |-> TRUE, selectedOptions |-> selectedOptions]

\* the orders posted: one in the frontend's shape (instances), one that mixes
\* a legacy line item with instances of which one has no option selected
Payloads ==
  { [name |-> "Ann", phone |-> "555-1", delivery |-> "pickup", email |-> "a@x.io",
     buddy |-> "", comments |-> "",
     items |-> << Item("sandwich", 3, << <<"egg", "croissant">>, <<"egg", "croissant">>,
                                         <<"no egg", "muffin">> >>) >>],
    [name |-> "Bob", phone |-> "555-2", delivery |-> "desk 4", email |-> "b@x.io",
     buddy |-> "Ann", comments |-> "no nuts",
     items |-> << LegacyItem("cookie", 2, <<>>),
                  Item("sandwich", 2, << <<"egg", "">>, <<"", "">> >>) >>] }

NoPayload ==
  [name |-> "", phone |-> "", delivery |-> "", email |-> "", buddy |-> "", comments |-> "",
   items |-> <<>>]

\* no execution in flight
Idle ==
  [op |-> "idle", payload |-> NoPayload, dataRows |-> <<>>, i |-> 0, replayedCount |-> 0,
   cleared |-> 0]

\* no rebuild completed so far.  Of a completed one: the orders_json rows and
\* the header it ran with, and the rows of Orders when it returned.
NoRebuild == [valid |-> FALSE, journal |-> <<>>, header |-> <<>>, result |-> <<>>]

\* the record of a finished execution: its function, what it told its caller
\* and, of a rebuild, the count it reported, the number of rows it deleted
\* from Orders and, if the rebuild before it ran with the same orders_json
\* rows and header (again), the rows of Orders that one returned with
Finished(op, msg, count) ==
  [op |-> op, msg |-> msg, count |-> count, cleared |-> 0, again |-> FALSE,
   previous |-> <<>>]

\* no order is taken through the row builders
NoOrder ==
  [pc |-> "none", menu |-> <<>>, items |-> <<>>, accepted |-> FALSE, orders |-> <<>>,
   orders2 |-> <<>>, rebuilt |-> <<>>, summary |-> <<>>]

\* the executions of doPost that may run at the same time
Callers == {1, 2}

\* no execution of that caller
NoCall == [pc |-> "none", payload |-> NoPayload, i |-> 0, currentLastRow |-> 0]

sysVars ==
  << tabs, sheets, run, clock, done, posted, lastRebuild, journalAtStart, menuStatus, calls >>

\* the spreadsheet right after the setup guide was followed, its orders_json
\* tab holding the given rows
Deployed(journal) ==
  /\ tabs = {"Menu", "orders_json", "Orders"}
  /\ sheets = [t \in {"Menu", "orders_json", "Orders", "Orders-2"} |->
                 IF t = "Menu" THEN MenuSheet ELSE IF t = "orders_json" THEN journal ELSE <<>>]
  /\ run = Idle
  /\ clock = 0
  /\ done = Finished("none", "", 0)
  /\ posted = <<>>
  /\ lastRebuild = NoRebuild
  /\ journalAtStart = journal
  /\ menuStatus = ""
  /\ calls = [p \in Callers |-> NoCall]

(***************************************************************************)
(* The codec, the aggregator and the formatter applied to bounded inputs:  *)
(* the options column of a sheet whose rows each hold one order's          *)
(* instances of one item                                                   *)
(***************************************************************************)
\* the most instances all the rows of an input hold together
MaxInstances == 3

\* the most rows of an input
MaxRows == 2

\* the option slots one instance may carry ("" is an unselected slot)
InstanceChoices ==
  { <<"egg", "croissant">>, <<"no egg", "muffin">>, <<"", "wrap">>, <<>>,
    <<"hot ">>, <<"(x)">> }

RECURSIVE totalLen(_)
totalLen(rows) == IF Len(rows) = 0 THEN 0 ELSE Len(Head(rows)) + totalLen(Tail(rows))

\* instance.options.filter(Boolean) for every instance of an order
filteredInstances(order) == [k \in 1..Len(order) |-> filterBoolean(order[k])]

PipeStart ==
  [pc |-> "input", rows |-> << <<>> >>, cells |-> <<>>, totals |-> "", shorthand |-> ""]

PipeInit == pipe = PipeStart /\ built = NoOrder /\ Deployed(<<>>)

\* the input grows by one instance in its last row
pipeAddInstance ==
  /\ pipe.pc = "input"
  /\ totalLen(pipe.rows) < MaxInstances
  /\ \E inst \in InstanceChoices :
       pipe' = [pipe EXCEPT !.rows[Len(pipe.rows)] = Append(@, inst)]
  /\ UNCHANGED << sysVars, built >>

\* the input grows by one (empty) row
pipeAddRow ==
  /\ pipe.pc = "input"
  /\ Len(pipe.rows) < MaxRows
  /\ pipe' = [pipe EXCEPT !.rows = Append(@, <<>>)]
  /\ UNCHANGED << sysVars, built >>

\* every row's options cell is written as writeToOrders writes it
pipeEncode ==
  /\ pipe.pc = "input"
  /\ pipe' = [pipe EXCEPT !.pc = "encoded",
                          !.cells = [r \in 1..Len(pipe.rows) |->
                                       << optionsString(filteredInstances(pipe.rows[r])) >>]]
  /\ UNCHANGED << sysVars, built >>

\* the totals cell of the column is computed
pipeAggregate ==
  /\ pipe.pc = "encoded"
  /\ pipe' = [pipe EXCEPT !.pc = "aggregated", !.totals = aggregateOptions(pipe.cells, 1)]
  /\ UNCHANGED << sysVars, built >>

\* the kitchen summary's shorthand of the totals cell is computed
pipeShorthand ==
  /\ pipe.pc = "aggregated"
  /\ pipe' = [pipe EXCEPT !.pc = "formatted", !.shorthand = formatKitchenShorthand(pipe.totals)]
  /\ UNCHANGED << sysVars, built >>

PipeNext == pipeAddInstance \/ pipeAddRow \/ pipeEncode \/ pipeAggregate \/ pipeShorthand

vars ==
  << pipe, tabs, sheets, run, clock, done, posted, lastRebuild, journalAtStart, menuStatus,
     built, calls >>

SpecPipe == PipeInit /\ [][PipeNext]_vars

(***************************************************************************)
(* The formatter applied to totals texts put together from segments        *)
(***************************************************************************)
\* the most segments of a totals text
MaxSegments == 2

\* segments of a totals text: "<count>x(<options>)" with an option of the
\* dictionary, in another case, padded, short, long, equal to the name of a
\* property every object has, with two options; and texts of other shapes
SegmentChoices ==
  { "2x(egg)", "1x(Egg)", "1x( Hot )", "1x(tea)", "1x(pesto)", "1x(constructor)",
    "3x(no egg, muffin)", "no options", "x(hot)" }

\* a totals cell that holds segments joined by ", "; pipe.cells keeps the
\* segments, one to a row
ShorthandInit ==
  /\ built = NoOrder
  /\ Deployed(<<>>)
  /\ \E n \in 0..MaxSegments : \E segments \in [1..n -> SegmentChoices] :
       pipe = [PipeStart EXCEPT !.pc = "aggregated",
                                !.cells = [k \in 1..n |-> << segments[k] >>],
                                !.totals = join(segments, ", ")]

SpecShorthand == ShorthandInit /\ [][pipeShorthand]_vars

(***************************************************************************)
(* The deployed system: order posts and the operator's menu functions,     *)
(* one execution at a time.                                                *)
(***************************************************************************)
\* the most entries of the orders_json tab at the start
MaxJournal == 2

\* the most orders posted
MaxPosts == 1

\* new Date() as the sheet shows it
now(t) == "now" \o NumStr(t)

JournalHeader ==
  << "Date", "Name", "Phone", "Delivery", "Email", "Items JSON", "Items", "Buddy", "Comments" >>

\* an orders_json row: the row of an order as doPost writes it, or such a row
\* whose JSON cell was cut off or emptied
EntryKinds ==
  [kind : {"order"}, payload : Payloads]
  \cup [kind : {"cut", "blank"},
        payload : {CHOOSE q \in Payloads : q.name = "Ann"}]

journalEntry(date, e) ==
  LET row == rawOrderRow(date, e.payload)
  IN  IF e.kind = "cut" THEN [row EXCEPT ![6] = substring(@, 1, 12)]
      ELSE IF e.kind = "blank" THEN [row EXCEPT ![6] = ""]
      ELSE row

journalRows(withHeader, entries) ==
  (IF withHeader THEN << JournalHeader >> ELSE <<>>)
  \o [k \in 1..Len(entries) |-> journalEntry("day" \o NumStr(k), entries[k])]

Init ==
  /\ pipe = PipeStart
  /\ built = NoOrder
  /\ \E n \in 0..MaxJournal : \E entries \in [1..n -> EntryKinds] : \E withHeader \in BOOLEAN :
       Deployed(journalRows(withHeader, entries))

\* only row 1 replaced by the header row, the rows below it kept
rebuildOrdersHeaders_keepsRows ==
  /\ run.op = "idle"
  /\ tabs' = tabs \cup {"Orders"}
  /\ sheets' = [sheets EXCEPT !["Orders"] =
                  initializeOrdersHeaders(sheets["Menu"]) \o SubSeq(@, 2, Len(@))]
  /\ done' = Finished("rebuildOrdersHeaders", "headers rebuilt", 0)
  /\ UNCHANGED << pipe, built, calls, menuStatus, run, clock, posted, lastRebuild, journalAtStart >>

\* the menu function "Rebuild Orders Headers"
rebuildOrdersHeaders ==
  /\ run.op = "idle"
  /\ tabs' = tabs \cup {"Orders"}
  /\ sheets' = [sheets EXCEPT !["Orders"] = initializeOrdersHeaders(sheets["Menu"])]
  /\ done' = Finished("rebuildOrdersHeaders", "headers rebuilt", 0)
  /\ UNCHANGED << pipe, built, calls, menuStatus, run, clock, posted, lastRebuild, journalAtStart >>

\* doPost up to and including ordersSheet.appendRow([...])
doPost_appendOrders ==
  /\ run.op = "idle"
  /\ clock < MaxPosts
  /\ \E payload \in Payloads :
       LET orders2 == IF "Orders-2" \in tabs THEN sheets["Orders-2"]
                      ELSE initializeOrders2Headers(sheets["Menu"])
       IN  /\ tabs' = tabs \cup {"Orders-2"}
           /\ clock' = clock + 1
           /\ IF "Orders" \notin tabs \/ readableItemsThrows(payload.items)
              THEN /\ sheets' = [sheets EXCEPT !["Orders-2"] = orders2]
                   /\ run' = Idle
                   /\ done' = Finished("doPost", "exception", 0)
              ELSE /\ sheets' = [sheets EXCEPT
                                   !["Orders-2"] = orders2,
                                   !["Orders"] = Append(@, rawOrderRow(now(clock + 1), payload))]
                   /\ run' = [Idle EXCEPT !.op = "doPost", !.payload = payload]
                   /\ done' = done
  /\ UNCHANGED << pipe, built, calls, menuStatus, posted, lastRebuild, journalAtStart >>

\* doPost from writeToOrders2(orders2Sheet, payload) to its return
doPost_writeToOrders2 ==
  /\ run.op = "doPost"
  /\ sheets' = [sheets EXCEPT !["Orders-2"] = writeToOrders2(@, run.payload, now(clock))]
  /\ posted' = Append(posted, run.payload)
  /\ done' = Finished("doPost", "OK", 0)
  /\ run' = Idle
  /\ UNCHANGED << pipe, built, calls, menuStatus, tabs, clock, lastRebuild, journalAtStart >>

\* the execution of doPost ends after the first append (a service error or
\* the execution time limit): the second sheet is not written
doPost_fails ==
  /\ run.op = "doPost"
  /\ done' = Finished("doPost", "failed", 0)
  /\ run' = Idle
  /\ UNCHANGED << pipe, built, calls, menuStatus, tabs, sheets, clock, posted, lastRebuild,
               journalAtStart >>

deleteDataRows_none(rows) == rows

deleteDataRows_fromThird(rows) == IF getLastRow(rows) > 2 THEN SubSeq(rows, 1, 2) ELSE rows

\* the rows of Orders after "if (ordersLastRow > 1) deleteRows(2, ordersLastRow - 1)"
deleteDataRows(rows) == IF getLastRow(rows) > 1 THEN << rows[1] >> ELSE rows

\* the rows of orders_json that buildOrdersFromJson replays: all rows, less a
\* first row whose first cell reads "date" in any letter case
dataRowsOf(json) ==
  IF Len(json) >= 1 /\ toLowerCase(Cell(json[1], 1)) = "date"
  THEN SubSeq(json, 2, Len(json)) ELSE json

\* buildOrdersFromJson up to the deletion of the old rows of Orders
buildOrdersFromJson_clear ==
  /\ run.op = "idle"
  /\ LET json == sheets["orders_json"]
         orders == sheets["Orders"]
         warn(msg) == /\ done' = Finished("buildOrdersFromJson", msg, 0)
                      /\ UNCHANGED << sheets, run >>
     IN  IF "orders_json" \notin tabs THEN warn("orders_json sheet not found")
         ELSE IF "Orders" \notin tabs THEN warn("Orders sheet not found")
         ELSE IF getLastColumn(orders) = 0 THEN warn("exception")
         ELSE IF Len(headerRow(orders)) < 6 THEN warn("Orders sheet has too few columns")
         ELSE IF getLastRow(json) < 1 \/ getLastColumn(json) < 6
              THEN warn("orders_json sheet has no data or is missing columns")
         ELSE IF Len(dataRowsOf(json)) = 0 THEN warn("No data rows found in orders_json")
         ELSE /\ sheets' = [sheets EXCEPT !["Orders"] = deleteDataRows(@)]
              /\ run' = [Idle EXCEPT !.op = "buildOrdersFromJson",
                                     !.dataRows = dataRowsOf(json), !.i = 1,
                                     !.cleared = getLastRow(orders) - 1]
              /\ done' = done
  /\ UNCHANGED << pipe, built, calls, menuStatus, tabs, clock, posted, lastRebuild, journalAtStart >>

\* buildOrdersFromJson: one round of dataRows.forEach
buildOrdersFromJson_replay ==
  /\ run.op = "buildOrdersFromJson"
  /\ run.i <= Len(run.dataRows)
  /\ LET r == replayEntry(sheets["Orders"], run.dataRows[run.i], now(clock))
     IN  /\ sheets' = [sheets EXCEPT !["Orders"] = r.rows]
         /\ run' = [run EXCEPT !.i = @ + 1,
                               !.replayedCount = IF r.replayed THEN @ + 1 ELSE @]
  /\ UNCHANGED << pipe, built, calls, menuStatus, tabs, clock, done, posted, lastRebuild,
               journalAtStart >>

\* buildOrdersFromJson after the loop: the totals and the report
buildOrdersFromJson_totals ==
  /\ run.op = "buildOrdersFromJson"
  /\ run.i > Len(run.dataRows)
  /\ LET result == IF run.replayedCount > 0 THEN updateTotalsRow(sheets["Orders"])
                   ELSE sheets["Orders"]
     IN  /\ sheets' = [sheets EXCEPT !["Orders"] = result]
         /\ lastRebuild' = [valid |-> TRUE, journal |-> sheets["orders_json"],
                             header |-> sheets["Orders"][1], result |-> result]
  /\ done' = [Finished("buildOrdersFromJson", "rebuilt", run.replayedCount) EXCEPT
                !.cleared = run.cleared,
                !.again = /\ lastRebuild.valid
                          /\ lastRebuild.journal = sheets["orders_json"]
                          /\ lastRebuild.header = sheets["Orders"][1],
                !.previous = IF /\ lastRebuild.valid
                                /\ lastRebuild.journal = sheets["orders_json"]
                                /\ lastRebuild.header = sheets["Orders"][1]
                             THEN lastRebuild.result ELSE <<>>]
  /\ run' = Idle
  /\ UNCHANGED << pipe, built, calls, menuStatus, tabs, clock, posted, journalAtStart >>

Next ==
  \/ rebuildOrdersHeaders
  \/ doPost_appendOrders
  \/ doPost_writeToOrders2
  \/ doPost_fails
  \/ buildOrdersFromJson_clear
  \/ buildOrdersFromJson_replay
  \/ buildOrdersFromJson_totals

Spec == Init /\ [][Next]_vars

(***************************************************************************)
(* The operator pauses and publishes the menu while orders are posted      *)
(***************************************************************************)
\* props.getProperty("menuStatus") || "published"
getMenuStatus == IF menuStatus = "" THEN "published" ELSE menuStatus

\* the menu function "Pause Menu" / "Publish Menu"
toggleMenuStatus ==
  /\ run.op = "idle"
  /\ menuStatus' = IF getMenuStatus = "published" THEN "paused" ELSE "published"
  /\ done' = Finished("toggleMenuStatus", "menu is now " \o menuStatus', 0)
  /\ UNCHANGED << pipe, built, calls, tabs, sheets, run, clock, posted, lastRebuild, journalAtStart >>

StatusNext == toggleMenuStatus \/ Next

SpecStatus == Init /\ [][StatusNext]_vars

(***************************************************************************)
(* The operator's menu functions of the end of the day, run between the    *)
(* order posts and the rebuilds.  The model covers the executions of one   *)
(* day: the archive tabs are named after the date, and a tab name that is  *)
(* taken makes setName throw.                                              *)
(***************************************************************************)
\* the menu function "Archive & Clear Orders".  The contents of the archive
\* tabs are not kept.  A run after the second of the day differs from the
\* second only in the number in the name of the copy it leaves behind.
archiveAndClear ==
  /\ run.op = "idle"
  /\ "Copy of Menu" \notin tabs
  /\ IF "Menu" \in tabs /\ "Menu_Archive_today" \in tabs
     THEN /\ tabs' = tabs \cup {"Copy of Menu"}
          /\ sheets' = sheets
          /\ done' = Finished("archiveAndClear", "exception", 0)
     ELSE /\ tabs' = tabs
                     \cup (IF "Menu" \in tabs THEN {"Menu_Archive_today"} ELSE {})
                     \cup (IF "Orders" \in tabs THEN {"Orders_Archive_today"} ELSE {})
                     \cup (IF "Orders-2" \in tabs THEN {"Orders-2_Archive_today"} ELSE {})
          /\ sheets' = [sheets EXCEPT
                          !["Orders"] = IF "Orders" \in tabs THEN deleteDataRows(@) ELSE @,
                          !["Orders-2"] = IF "Orders-2" \in tabs THEN deleteDataRows(@) ELSE @]
          /\ done' = Finished("archiveAndClear", "archive created", 0)
  /\ UNCHANGED << pipe, built, calls, menuStatus, run, clock, posted, lastRebuild, journalAtStart >>

\* the menu function "Refresh Totals"; the record of a run that refreshed
\* the totals keeps the rows of Orders it started with (previous)
refreshTotals ==
  /\ run.op = "idle"
  /\ IF "Orders" \notin tabs
     THEN /\ sheets' = sheets
          /\ done' = Finished("refreshTotals", "Orders sheet not found", 0)
     ELSE IF getLastRow(sheets["Orders"]) < 2
     THEN /\ sheets' = sheets
          /\ done' = Finished("refreshTotals", "No data found in Orders sheet", 0)
     ELSE /\ sheets' = [sheets EXCEPT !["Orders"] = updateTotalsRow(@)]
          /\ done' = [Finished("refreshTotals", "totals refreshed", 0) EXCEPT
                        !.previous = sheets["Orders"]]
  /\ UNCHANGED << pipe, built, calls, menuStatus, tabs, run, clock, posted, lastRebuild,
               journalAtStart >>

SpecTools == Init /\ [][archiveAndClear \/ refreshTotals \/ Next]_vars

(***************************************************************************)
(* "Refresh Totals" on an Orders tab the operator has edited by hand: the  *)
(* header row of the menu, and below it kitchen rows and TOTALS rows in    *)
(* any number and order                                                    *)
(***************************************************************************)
\* the most rows below the header
MaxSheetRows == 4

\* the rows the tab is made of: the kitchen rows of the two orders, a TOTALS
\* row as updateTotalsRow writes it and one whose sums were typed in
SheetRowChoices ==
  LET header == initializeOrdersHeaders(MenuSheet)
  IN  { writeToOrders(header, q, "day1")[2] : q \in Payloads }
      \cup { updateTotalsRow(header)[2],
              [k \in 1..Len(header[1]) |-> IF k = 1 THEN "TOTALS" ELSE IF k <= 5 THEN "" ELSE "4"] }

TotalsInit ==
  /\ pipe = PipeStart
  /\ built = NoOrder
  /\ tabs = {"Menu", "orders_json", "Orders"}
  /\ \E n \in 0..MaxSheetRows : \E rows \in [1..n -> SheetRowChoices] :
       sheets = [t \in {"Menu", "orders_json", "Orders", "Orders-2"} |->
                   IF t = "Menu" THEN MenuSheet
                   ELSE IF t = "Orders" THEN initializeOrdersHeaders(MenuSheet) \o rows
                   ELSE <<>>]
  /\ run = Idle
  /\ clock = 0
  /\ done = Finished("none", "", 0)
  /\ posted = <<>>
  /\ lastRebuild = NoRebuild
  /\ journalAtStart = <<>>
  /\ menuStatus = ""
  /\ calls = [p \in Callers |-> NoCall]

SpecTotals == TotalsInit /\ [][refreshTotals]_vars

(***************************************************************************)
(* Two executions of doPost at the same time.  doPost takes no lock, so    *)
(* the calls it makes on the sheets interleave with the other execution's: *)
(* every action below is one read or one write of a sheet by one caller.   *)
(* The reads of the header row are not steps of their own: no execution    *)
(* changes row 1.  An order was taken before, so Orders holds its raw row  *)
(* and Orders-2 its kitchen row and a TOTALS row.                          *)
(***************************************************************************)
RaceInit ==
  /\ pipe = PipeStart
  /\ built = NoOrder
  /\ tabs = {"Menu", "orders_json", "Orders", "Orders-2"}
  /\ \E first \in Payloads :
       sheets = [t \in {"Menu", "orders_json", "Orders", "Orders-2"} |->
                   IF t = "Menu" THEN MenuSheet
                   ELSE IF t = "Orders" THEN << rawOrderRow("day1", first) >>
                   ELSE IF t = "Orders-2"
                        THEN writeToOrders2(initializeOrders2Headers(MenuSheet), first, "day1")
                   ELSE <<>>]
  /\ run = Idle
  /\ clock = 0
  /\ done = Finished("none", "", 0)
  /\ posted = <<>>
  /\ lastRebuild = NoRebuild
  /\ journalAtStart = <<>>
  /\ menuStatus = ""
  /\ calls = [p \in Callers |-> [NoCall EXCEPT !.pc = "doPost"]]

\* what follows the body of "for (let i = lastRow; i >= 2; i--)": the next
\* round, or the code after the loop
race_nextRound(call) ==
  [call EXCEPT !.i = @ - 1, !.pc = IF call.i - 1 >= 2 THEN "getValue" ELSE "currentLastRow"]

\* doPost: ordersSheet.appendRow([...])
race_appendOrders(p) ==
  /\ calls[p].pc = "doPost"
  /\ \E payload \in Payloads :
       /\ sheets' = [sheets EXCEPT !["Orders"] = Append(@, rawOrderRow(now(clock + 1), payload))]
       /\ calls' = [calls EXCEPT ![p] = [@ EXCEPT !.pc = "writeToOrders2", !.payload = payload]]
  /\ clock' = clock + 1
  /\ UNCHANGED << pipe, built, menuStatus, tabs, run, done, posted, lastRebuild,
               journalAtStart >>

\* writeToOrders2: sheet.appendRow(rowData)
race_appendRow(p) ==
  /\ calls[p].pc = "writeToOrders2"
  /\ LET headers == headerRow(sheets["Orders-2"])
         rowData == writeToOrders2_fill(writeToOrders2_collect(calls[p].payload.items, <<>>),
                                        headers,
                                        baseCells(headers, now(clock), calls[p].payload))
     IN  sheets' = [sheets EXCEPT !["Orders-2"] = Append(@, rowData)]
  /\ calls' = [calls EXCEPT ![p] = [@ EXCEPT !.pc = "getLastRow"]]
  /\ UNCHANGED << pipe, built, menuStatus, tabs, run, clock, done, posted, lastRebuild,
               journalAtStart >>

\* updateTotalsRow: const lastRow = sheet.getLastRow(), where the loop starts
race_getLastRow(p) ==
  /\ calls[p].pc = "getLastRow"
  /\ calls' = [calls EXCEPT ![p] = race_nextRound([@ EXCEPT !.i = getLastRow(sheets["Orders-2"]) + 1])]
  /\ UNCHANGED << pipe, built, menuStatus, tabs, sheets, run, clock, done, posted, lastRebuild,
               journalAtStart >>

\* updateTotalsRow: sheet.getRange(i, 1).getValue() and the comparison with
\* "TOTALS"; a row below the last row reads as empty
race_getValue(p) ==
  /\ calls[p].pc = "getValue"
  /\ LET rows == sheets["Orders-2"]
         cellValue == IF calls[p].i <= Len(rows) THEN Cell(rows[calls[p].i], 1) ELSE ""
     IN  calls' = [calls EXCEPT ![p] = IF cellValue = "TOTALS" THEN [@ EXCEPT !.pc = "deleteRow"]
                                       ELSE race_nextRound(@)]
  /\ UNCHANGED << pipe, built, menuStatus, tabs, sheets, run, clock, done, posted, lastRebuild,
               journalAtStart >>

\* updateTotalsRow: sheet.deleteRow(i); a row below the last row holds nothing
race_deleteRow(p) ==
  /\ calls[p].pc = "deleteRow"
  /\ LET rows == sheets["Orders-2"]
         i == calls[p].i
     IN  sheets' = [sheets EXCEPT !["Orders-2"] =
                      IF i <= Len(rows) THEN SubSeq(rows, 1, i - 1) \o SubSeq(rows, i + 1, Len(rows))
                      ELSE rows]
  /\ calls' = [calls EXCEPT ![p] = race_nextRound(@)]
  /\ UNCHANGED << pipe, built, menuStatus, tabs, run, clock, done, posted, lastRebuild,
               journalAtStart >>

\* updateTotalsRow: const currentLastRow = sheet.getLastRow()
race_currentLastRow(p) ==
  /\ calls[p].pc = "currentLastRow"
  /\ calls' = [calls EXCEPT ![p] = [@ EXCEPT !.pc = "appendTotals",
                                              !.currentLastRow = getLastRow(sheets["Orders-2"])]]
  /\ UNCHANGED << pipe, built, menuStatus, tabs, sheets, run, clock, done, posted, lastRebuild,
               journalAtStart >>

\* updateTotalsRow: sheet.appendRow(totalsData), and doPost answers "OK"
race_appendTotals(p) ==
  /\ calls[p].pc = "appendTotals"
  /\ sheets' = [sheets EXCEPT !["Orders-2"] =
                  Append(@, updateTotalsRow_totalsData(headerRow(@), calls[p].currentLastRow))]
  /\ calls' = [calls EXCEPT ![p] = [@ EXCEPT !.pc = "done"]]
  /\ posted' = Append(posted, calls[p].payload)
  /\ done' = Finished("doPost", "OK", 0)
  /\ UNCHANGED << pipe, built, menuStatus, tabs, run, clock, lastRebuild, journalAtStart >>

SpecRace ==
  RaceInit /\ [][\E p \in Callers :
                    \/ race_appendOrders(p)
                    \/ race_appendRow(p)
                    \/ race_getLastRow(p)
                    \/ race_getValue(p)
                    \/ race_deleteRow(p)
                    \/ race_currentLastRow(p)
                    \/ race_appendTotals(p)]_vars

(***************************************************************************)
(* Kitchen prep summary: generateKitchenSummary                            *)
(***************************************************************************)
\* SUM over the cells of column k in rows first..last: a cell counts with
\* its value when it holds a number written with digits, with 0 when it
\* holds text or nothing
RECURSIVE sumColumn(_, _, _, _)
sumColumn(rows, k, first, last) ==
  IF first > last THEN 0
  ELSE LET cell == Cell(rows[first], k)
       IN  (IF cell # "" /\ digitRun(cell, 1) = Len(cell)
            THEN decimal(cell, 1, Len(cell), 0) ELSE 0)
           + sumColumn(rows, k, first + 1, last)

\* getRange(r, 1, 1, width).getValues()[0]: the values of row r.  A cell
\* that holds a formula of updateTotalsRow, =SUM(<col>2:<col>n) with n the
\* row above, yields the sum of its column over rows 2..r-1.
getValues(rows, r, width) ==
  [k \in 1..width |->
     IF startsWith(Cell(rows[r], k), "=SUM(")
     THEN NumStr(sumColumn(rows, k, 2, r - 1))
     ELSE Cell(rows[r], k)]

\* the rows pushed to summaryData by the loop from column i on
RECURSIVE generateKitchenSummary_rows(_, _, _)
generateKitchenSummary_rows(headers, totalsData, i) ==
  IF i > Len(headers) THEN <<>>
  ELSE LET header == headers[i]
           value == totalsData[i]
           parts == split(header, " - options")
           \* header.replace(" - options", ""): the first occurrence is removed
           itemName == Head(parts) \o join(Tail(parts), " - options")
           itemIndex == indexOf(headers, itemName)
           pushed ==
             IF value = "" \/ value = "0" THEN <<>>
             ELSE IF includes(header, " - options")
             THEN << << itemName, (IF itemIndex # 0 THEN totalsData[itemIndex] ELSE ""),
                        formatKitchenShorthand(value) >> >>
             ELSE IF indexOf(headers, header \o " - options") = 0
             THEN << << header, value, NoOptionsMarker >> >>
             ELSE <<>>
       IN  pushed \o generateKitchenSummary_rows(headers, totalsData, i + 1)

\* the rows of the "Kitchen Prep Summary" tab after generateKitchenSummary()
\* ran on the given rows of Orders: nothing when it alerts and returns
generateKitchenSummary(rows) ==
  LET lastRow == getLastRow(rows)
      headers == headerRow(rows)
      totalsRows == {i \in 2..lastRow : Cell(rows[i], 1) = "TOTALS"}
  IN  IF lastRow < 2 \/ totalsRows = {} THEN <<>>
      ELSE LET totalsRowIndex == CHOOSE i \in totalsRows : \A j \in totalsRows : j <= i
               summaryData ==
                 generateKitchenSummary_rows(
                   headers, getValues(rows, totalsRowIndex, Len(headers)), 6)
           IN  IF Len(summaryData) > 0
               THEN << << "ITEM", "QUANTITY", "OPTIONS BREAKDOWN" >> >> \o summaryData
               ELSE <<>>

(***************************************************************************)
(* The header builder, the row builders and the kitchen summary applied to *)
(* one order under a bounded menu                                          *)
(***************************************************************************)
\* the most item rows of the Menu tab
MaxMenuItems == 2

\* the most line items of the order
MaxItems == 2

\* rows of the Menu tab: an item with options, an item without, a row
\* without a name, an item whose options cell holds blanks only
MenuChoices ==
  { << "Breakfast", "sandwich", "8.50", "egg/no egg|croissant/muffin", "" >>,
    << "Snacks", "cookie", "2.00", "", "" >>,
    << "Drinks", "", "1.00", "hot/cold", "" >>,
    << "Lunch", "soup", "4.00", "  ", "" >> }

\* line items: instances as the frontend sends them (all with options; one
\* with an unselected slot, one with none selected and a qty that differs
\* from the number of instances), and legacy items with qty and
\* selectedOptions, without selectedOptions, without qty, with an empty
\* instances list and nothing selected
ItemChoices ==
  { Item("sandwich", 3, << <<"egg", "croissant">>, <<"egg", "croissant">>,
                           <<"no egg", "muffin">> >>),
    Item("sandwich", 5, << <<"egg", "">>, <<"", "">> >>),
    LegacyItem("sandwich", 2, <<"egg", "muffin">>),
    [LegacyItem("cookie", 2, <<>>) EXCEPT !.hasSelected = FALSE],
    [LegacyItem("cookie", 0, <<"">>) EXCEPT !.hasQty = FALSE],
    [LegacyItem("sandwich", 1, <<"", "">>) EXCEPT !.hasInstances = TRUE],
    Item("soup", 1, << <<"hot">> >>) }

\* the order posted with the line items
orderOf(items) ==
  [NoPayload EXCEPT !.name = "Ann", !.phone = "555-1", !.delivery = "pickup",
                    !.email = "a@x.io", !.items = items]

OrderInit ==
  /\ pipe = PipeStart
  /\ Deployed(<<>>)
  /\ \E m \in 0..MaxMenuItems : \E menuData \in [1..m -> MenuChoices] :
     \E n \in 0..MaxItems : \E items \in [1..n -> ItemChoices] :
       built = [NoOrder EXCEPT !.pc = "input", !.menu = << Head(MenuSheet) >> \o menuData,
                               !.items = items]

\* initializeOrdersHeaders and initializeOrders2Headers on empty sheets
order_headers ==
  /\ built.pc = "input"
  /\ built' = [built EXCEPT !.pc = "headers",
                            !.orders = initializeOrdersHeaders(built.menu),
                            !.orders2 = initializeOrders2Headers(built.menu),
                            !.rebuilt = initializeOrdersHeaders(built.menu)]
  /\ UNCHANGED << sysVars, pipe >>

\* doPost from readableItems on, as to the kitchen row: writeToOrders (first
\* declaration of doPost) and writeToOrders2 (second declaration) on the
\* sheets with only a header row; neither runs when readableItems throws
order_live ==
  /\ built.pc = "headers"
  /\ built' =
       IF readableItemsThrows(built.items)
       THEN [built EXCEPT !.pc = "live", !.accepted = FALSE]
       ELSE [built EXCEPT !.pc = "live", !.accepted = TRUE,
                          !.orders = writeToOrders(@, orderOf(built.items), now(1)),
                          !.orders2 = writeToOrders2(@, orderOf(built.items), now(1))]
  /\ UNCHANGED << sysVars, pipe >>

\* buildOrdersFromJson with an orders_json tab whose only entry holds the
\* order's line items: the replay of the entry onto the header row, then
\* updateTotalsRow if it was replayed
order_rebuild ==
  /\ built.pc = "live"
  /\ LET replay == replayEntry(built.rebuilt,
                               << "day1", "Ann", "555-1", "pickup", "a@x.io",
                                  JSONstringify(built.items) >>, now(2))
     IN  built' = [built EXCEPT
                     !.pc = "rebuilt",
                     !.rebuilt = IF replay.replayed THEN updateTotalsRow(replay.rows)
                                 ELSE replay.rows]
  /\ UNCHANGED << sysVars, pipe >>

\* generateKitchenSummary on the rebuilt sheet
order_summary ==
  /\ built.pc = "rebuilt"
  /\ built' = [built EXCEPT !.pc = "summary",
                            !.summary = generateKitchenSummary(built.rebuilt)]
  /\ UNCHANGED << sysVars, pipe >>

OrderNext == order_headers \/ order_live \/ order_rebuild \/ order_summary

SpecOrder == OrderInit /\ [][OrderNext]_vars

\* the same steps on the Menu of the setup guide, the line items also drawn
\* from items named like a base header and like an options column
NamesInit ==
  /\ pipe = PipeStart
  /\ Deployed(<<>>)
  /\ \E n \in 0..MaxItems :
     \E items \in [1..n -> ItemChoices
                              \cup { Item("Name", 1, << <<"egg">> >>),
                                      Item("sandwich - options", 2,
                                           << <<"egg", "croissant">>, <<"", "">> >>) }] :
       built = [NoOrder EXCEPT !.pc = "input", !.menu = MenuSheet, !.items = items]

SpecNames == NamesInit /\ [][OrderNext]_vars

(***************************************************************************)
(* Properties of the codec, the aggregator and the formatter               *)
(***************************************************************************)
\* an option text with no parenthesis and no leading or trailing whitespace
CleanOption(o) == ~includes(o, "(") /\ ~includes(o, ")") /\ trim(o) = o

CleanRows ==
  \A r \in 1..Len(pipe.rows) : \A k \in 1..Len(pipe.rows[r]) :
    \A j \in 1..Len(pipe.rows[r][k]) : CleanOption(pipe.rows[r][k][j])

\* the tuple strings "(o1, ..., ok)" of the instances of an order that have
\* at least one non-empty option, in instance order
RECURSIVE impliedTuples(_)
impliedTuples(order) ==
  IF Len(order) = 0 THEN <<>>
  ELSE LET opts == filterBoolean(Head(order))
       IN  (IF Len(opts) = 0 THEN <<>> ELSE << "(" \o join(opts, ", ") \o ")" >>)
           \o impliedTuples(Tail(order))

occurrences(t, tuples) == Cardinality({k \in 1..Len(tuples) : tuples[k] = t})

firstSeen(t, tuples) == CHOOSE k \in 1..Len(tuples) :
                          tuples[k] = t /\ \A j \in 1..(k - 1) : tuples[j] # t

distinctTuples(tuples) == {tuples[k] : k \in 1..Len(tuples)}

\* the place of tuple t in the totals: after every tuple with a higher count
\* and after every tuple of equal count that was seen earlier
rank(t, tuples) ==
  1 + Cardinality({u \in distinctTuples(tuples) :
        \/ occurrences(u, tuples) > occurrences(t, tuples)
        \/ /\ occurrences(u, tuples) = occurrences(t, tuples)
           /\ firstSeen(u, tuples) < firstSeen(t, tuples)})

rankedTuples(tuples) ==
  [p \in 1..Cardinality(distinctTuples(tuples)) |->
     CHOOSE t \in distinctTuples(tuples) : rank(t, tuples) = p]

expectedTotals(tuples) ==
  LET ranked == rankedTuples(tuples)
  IN  join([p \in 1..Len(ranked) |->
              NumStr(occurrences(ranked[p], tuples)) \o "x" \o ranked[p]], ", ")

pipeInstances == UNION {{pipe.rows[r][k] : k \in 1..Len(pipe.rows[r])} : r \in 1..Len(pipe.rows)}

\* the options of the instance a tuple string was written from
optionsOfTuple(t) ==
  filterBoolean(CHOOSE inst \in pipeInstances : impliedTuples(<< inst >>) = << t >>)

expectedShorthand(tuples) ==
  LET ranked == rankedTuples(tuples)
  IN  join([p \in 1..Len(ranked) |->
              LET opts == optionsOfTuple(ranked[p])
              IN  NumStr(occurrences(ranked[p], tuples)) \o "x("
                  \o join([j \in 1..Len(opts) |-> abbreviate(opts[j])], ",") \o ")"], ", ")

RECURSIVE allImpliedTuples(_)
allImpliedTuples(rows) ==
  IF Len(rows) = 0 THEN <<>> ELSE impliedTuples(Head(rows)) \o allImpliedTuples(Tail(rows))

\* C1: the shorthand of an aggregated totals string keeps the segments and
\* their order, every option replaced by its abbreviation and the options of
\* a tuple joined by "," ("2x(egg, croissant), 1x(no egg, muffin)" becomes
\* "2x(E,CR), 1x(NE,MF)").  formatKitchenShorthand does not do this.
C1_ShorthandAbbreviatesEveryOption ==
  (pipe.pc = "formatted" /\ CleanRows /\ pipe.totals # "")
    => pipe.shorthand = expectedShorthand(allImpliedTuples(pipe.rows))

\* C2 as claimed: decoding an encoded options cell gives back the tuple
\* strings of the instances with at least one option, for option texts of
\* any content.
C2_RoundTripAnyText ==
  pipe.pc # "input"
    => \A r \in 1..Len(pipe.rows) : decodeCell(pipe.cells[r][1]) = impliedTuples(pipe.rows[r])

\* C2 amended: the round trip holds when no option text contains a
\* parenthesis or starts or ends with whitespace.
C2_RoundTripCleanText ==
  (pipe.pc # "input" /\ CleanRows)
    => \A r \in 1..Len(pipe.rows) : decodeCell(pipe.cells[r][1]) = impliedTuples(pipe.rows[r])

\* an encoded row of clean options with two different tuples and an instance
\* that selected nothing
C2_Witness ==
  /\ pipe.pc = "encoded"
  /\ CleanRows
  /\ \E r \in 1..Len(pipe.rows) :
        /\ Len(pipe.rows[r]) = 3
        /\ Len(decodeCell(pipe.cells[r][1])) = 2
        /\ Cardinality(distinctTuples(decodeCell(pipe.cells[r][1]))) = 2

\* C3: the totals list every distinct tuple once as "<count>x<tuple>", joined
\* by ", ", highest count first and equal counts in first-seen order (rows
\* top to bottom, tuples left to right).
C3_TotalsSortedStable ==
  pipe.pc \in {"aggregated", "formatted"}
    => pipe.totals = expectedTotals(columnTuples(pipe.cells, 1))

\* totals over two rows in which the tuple seen first comes last, because
\* the other tuple was counted twice
C3_Witness ==
  /\ pipe.pc = "aggregated"
  /\ LET tuples == columnTuples(pipe.cells, 1)
     IN  /\ Len(tuples) = 3
         /\ Cardinality(distinctTuples(tuples)) = 2
         /\ occurrences(tuples[1], tuples) = 1
         /\ Len(pipe.rows) = 2 /\ Len(pipe.rows[1]) > 0 /\ Len(pipe.rows[2]) > 0

(***************************************************************************)
(* Properties of the rebuild and of the live path                          *)
(***************************************************************************)
Orders == sheets["Orders"]

\* the order entries of orders_json: its rows, less the header row
JournalEntries ==
  LET json == sheets["orders_json"]
  IN  IF Len(json) >= 1 /\ json[1] = JournalHeader THEN Tail(json) ELSE json

\* the JSON cell of the entry holds the line items of an order
Parsable(row) == \E q \in Payloads : Cell(row, 6) = JSONstringify(q.items)

ParsableEntries == SelectSeq(JournalEntries, Parsable)

RowsBelowHeader(rows) == IF Len(rows) <= 1 THEN <<>> ELSE Tail(rows)

IsTotals(row) == Cell(row, 1) = "TOTALS"

IsData(row) == ~IsTotals(row)

DataRows(rows) == SelectSeq(RowsBelowHeader(rows), IsData)

TotalsRows(rows) == SelectSeq(RowsBelowHeader(rows), IsTotals)

\* the column schema of the Menu tab
SchemaOfMenu ==
  << "Date", "Name", "Phone", "Delivery", "Email", "sandwich", "sandwich - options", "cookie" >>

ValidHeader == Len(Orders) >= 1 /\ Orders[1] = SchemaOfMenu

\* buildOrdersFromJson has returned, whatever it did, and nothing ran since
Returned == run.op = "idle" /\ done.op = "buildOrdersFromJson"

\* buildOrdersFromJson has replayed orders_json and reported its count, and
\* nothing ran since
Rebuilt == Returned /\ done.msg = "rebuilt"

OnlyJournalRows ==
  LET rows == DataRows(Orders)
      entries == ParsableEntries
      totals == TotalsRows(Orders)
  IN  /\ Len(rows) = Len(entries)
      /\ \A k \in 1..Len(rows) : SubSeq(rows[k], 1, 5) = SubSeq(entries[k], 1, 5)
      /\ Len(totals) <= 1
      /\ RowsBelowHeader(Orders) = rows \o totals

\* C5 as claimed: after buildOrdersFromJson has run on an Orders sheet with a
\* valid header row, whatever the journal holds, no row from before the call
\* is left below the header: the rows are exactly those rebuilt from the journal.
C5_DiscardsForEveryJournal == (Returned /\ ValidHeader) => OnlyJournalRows

\* C5 amended: the same, for a journal that holds at least one row of data.
C5_DiscardsWhenJournalHasRows ==
  (Returned /\ ValidHeader /\ Len(JournalEntries) >= 1) => OnlyJournalRows

\* a rebuild that deleted two or more old rows and replayed an entry
C5_Witness ==
  /\ Rebuilt
  /\ ValidHeader
  /\ done.cleared >= 2
  /\ done.count >= 1

\* C6: a rebuild that runs with the journal and the header of the rebuild
\* before it leaves Orders cell for cell as that rebuild left it, whatever
\* was written to Orders in between.
C6_RebuildIdempotent == (Rebuilt /\ done.again) => Orders = done.previous

\* a second rebuild of two entries that found rows to delete
C6_Witness ==
  /\ Rebuilt
  /\ done.again
  /\ Len(Orders) = 4
  /\ done.cleared >= 3

\* the last row of Orders is its only TOTALS row and sums rows 2..lastDataRow
SingleTotalsLast(lastDataRow) ==
  /\ Len(Orders) = lastDataRow + 1
  /\ Len(TotalsRows(Orders)) = 1
  /\ IsTotals(Orders[Len(Orders)])
  /\ \A k \in 6..Len(Orders[Len(Orders)]) :
       Orders[Len(Orders)][k] =
         "=SUM(" \o Char(UpperAlphabet, k) \o "2:" \o Char(UpperAlphabet, k)
         \o NumStr(lastDataRow) \o ")"

\* C7 as claimed: no TOTALS row is written while entries are replayed, and for
\* every journal with at least one data row the last row of the rebuilt
\* Orders is its single TOTALS row.
C7_TotalsForEveryJournalWithRows ==
  /\ run.op = "buildOrdersFromJson" => TotalsRows(Orders) = <<>>
  /\ (Rebuilt /\ Len(JournalEntries) >= 1) =>
       (Len(TotalsRows(Orders)) = 1 /\ IsTotals(Orders[Len(Orders)]))

\* C7 amended: no TOTALS row is written while entries are replayed, and when
\* at least one entry was replayed the last row of the rebuilt Orders is its
\* single TOTALS row, summing all replayed rows.
C7_TotalsOnceWhenReplayed ==
  /\ run.op = "buildOrdersFromJson" => TotalsRows(Orders) = <<>>
  /\ (Rebuilt /\ done.count >= 1) => SingleTotalsLast(done.count + 1)

\* a rebuild that replayed two entries under the menu's schema
C7_Witness ==
  /\ Rebuilt
  /\ ValidHeader
  /\ done.count = 2
  /\ Len(Orders[Len(Orders)]) = 8

\* C8: every row buildOrdersFromJson writes carries in its Date cell the Date
\* cell of the journal entry it was built from, not the wall clock's time.
C8_DateIsJournalTimestamp ==
  (run.op = "buildOrdersFromJson" \/ Rebuilt) =>
    LET rows == DataRows(Orders)
        entries == ParsableEntries
    IN  \A k \in 1..Len(rows) :
          /\ Cell(rows[k], 1) = Cell(entries[k], 1)
          /\ Cell(rows[k], 1) # now(clock)

\* a rebuild of two entries that ran after the wall clock had moved
C8_Witness ==
  /\ Rebuilt
  /\ clock >= 1
  /\ done.count = 2
  /\ Cell(DataRows(Orders)[2], 1) = "day2"

\* the rows equal each other cell by cell apart from the first cell
SameApartFromDate(a, b) ==
  /\ Len(a) = Len(b)
  /\ \A k \in 1..Len(a) : Tail(a[k]) = Tail(b[k])

\* C9: starting from a journal without entries and an empty projection, once
\* orders were accepted by doPost under the menu's schema and
\* buildOrdersFromJson has run, the rows of Orders below the header equal,
\* apart from the Date cell, the kitchen rows and TOTALS row the live path
\* wrote for those orders.
C9_LiveAndRebuildAgree ==
  (Returned /\ ValidHeader /\ posted # <<>>
     /\ journalAtStart \in {<<>>, << JournalHeader >>})
    => SameApartFromDate(RowsBelowHeader(Orders), RowsBelowHeader(sheets["Orders-2"]))

\* C10: in every state, each data row of the tabs doPost appends to has an
\* order entry in orders_json with the same customer cells.
C10_JournalBeforeProjection ==
  \A t \in {"Orders", "Orders-2"} :
    LET rows == DataRows(sheets[t])
    IN  \A k \in 1..Len(rows) : \E j \in 1..Len(JournalEntries) : \A c \in 2..5 :
          Cell(JournalEntries[j], c) = Cell(rows[k], c)

\* the customer cells (Name, Phone, Delivery, Email) of each row
customerCells(rows) == [k \in 1..Len(rows) |-> [c \in 1..4 |-> Cell(rows[k], c + 1)]]

\* a is b with zero or more of its elements left out
RECURSIVE IsSubsequence(_, _)
IsSubsequence(a, b) ==
  IF Len(a) = 0 THEN TRUE
  ELSE IF Len(b) = 0 THEN FALSE
  ELSE IF Head(a) = Head(b) THEN IsSubsequence(Tail(a), Tail(b))
  ELSE IsSubsequence(a, Tail(b))

\* C11: after any sequence of doPost ingestions and buildOrdersFromJson
\* rebuilds, the data rows of the tabs that hold kitchen rows are, customer
\* by customer, the journal's entries in journal order with zero or more
\* entries left out.
C11_ProjectionInJournalOrder ==
  run.op = "idle" =>
    \A t \in {"Orders", "Orders-2"} :
      IsSubsequence(customerCells(DataRows(sheets[t])), customerCells(JournalEntries))

\* the options columns of a header row
optionsColumns(headers) == {k \in 1..Len(headers) : endsWith(headers[k], " - options")}

\* C12: when doPost has answered OK, the sheet it wrote the kitchen row to
\* ends in one TOTALS row, and each options column of that row holds
\* aggregateOptions over the data rows of the sheet.
C12_TotalsAreAggregates ==
  (run.op = "idle" /\ done.op = "doPost" /\ done.msg = "OK") =>
    LET rows == sheets["Orders-2"]
        totals == TotalsRows(rows)
    IN  /\ Len(totals) = 1
        /\ IsTotals(rows[Len(rows)])
        /\ \A k \in optionsColumns(rows[1]) :
             Cell(totals[1], k) = aggregateOptions(DataRows(rows), k)

\* C19: a doPost that starts while the menu status is "paused" changes no
\* sheet and ends at once, with an error result.
C19_PausedRejectsOrders ==
  [][(getMenuStatus = "paused" /\ clock' # clock)
       => (sheets' = sheets /\ run'.op = "idle" /\ done'.op = "doPost" /\ done'.msg # "OK")]_vars

(***************************************************************************)
(* Properties of the header builder, the row builders and the summary      *)
(***************************************************************************)
\* the first column with the given header, 0 when there is none
columnOf(headers, h) ==
  IF \E k \in 1..Len(headers) : headers[k] = h
  THEN CHOOSE k \in 1..Len(headers) : headers[k] = h /\ \A j \in 1..(k - 1) : headers[j] # h
  ELSE 0

NonBlank(text) == \E i \in 1..Len(text) : ~IsSpace(Char(text, i))

\* the columns a Menu row (category, name, price, options, description) gives
columnsOfMenuRow(row) ==
  IF row[2] = "" THEN <<>>
  ELSE IF NonBlank(row[4]) THEN << row[2], row[2] \o " - options" >>
  ELSE << row[2] >>

RECURSIVE concatAll(_)
concatAll(seqs) == IF Len(seqs) = 0 THEN <<>> ELSE Head(seqs) \o concatAll(Tail(seqs))

expectedSchema(menu) ==
  << "Date", "Name", "Phone", "Delivery", "Email" >>
  \o concatAll([k \in 1..(Len(menu) - 1) |-> columnsOfMenuRow(menu[k + 1])])

\* C13: the header row initializeOrdersHeaders writes is the five base
\* columns and then, for each Menu row in Menu order, a column named after
\* the item and, only if its options cell is not blank, "<name> - options";
\* a row with an empty name gives no column.  The same Menu gives the same
\* header row wherever it is built.
C13_SchemaFollowsCatalog ==
  built.pc # "input" =>
    /\ built.orders[1] = expectedSchema(built.menu)
    /\ initializeOrdersHeaders(built.menu) = << expectedSchema(built.menu) >>

\* headers built from a Menu with a row without name and an item whose
\* options cell is blank
C13_Witness ==
  /\ built.pc = "headers"
  /\ Len(built.menu) = 3
  /\ built.menu[2][2] = ""
  /\ built.menu[3][4] = "  "
  /\ built.orders[1] = << "Date", "Name", "Phone", "Delivery", "Email", "soup" >>

\* the line item carries a list of one or more instances
InstanceForm(item) == item.hasInstances /\ Len(item.instances) > 0

\* the instances a line item stands for: its own, or for a legacy item qty
\* times its selectedOptions (no qty is 0, no selectedOptions is no option)
normalized(item) ==
  IF InstanceForm(item) THEN item.instances
  ELSE [i \in 1..(IF item.hasQty THEN item.qty ELSE 0) |->
          IF item.hasSelected THEN item.selectedOptions ELSE <<>>]

\* the instances of all line items of the order with the given name
instancesNamed(items, name) ==
  concatAll([k \in 1..Len(items) |->
               IF items[k].name = name THEN normalized(items[k]) ELSE <<>>])

itemNames(items) == {items[k].name : k \in 1..Len(items)}

\* the rows the builders wrote for the order, each with its header row
builtRows ==
  (IF built.accepted
   THEN {[headers |-> built.orders[1], row |-> built.orders[2]],
         [headers |-> built.orders2[1], row |-> built.orders2[2]]}
   ELSE {})
  \cup (IF built.pc \in {"rebuilt", "summary"}
        THEN {[headers |-> built.rebuilt[1], row |-> built.rebuilt[2]]}
        ELSE {})

\* the count cell and the options cell of the item in the row are those of
\* the given instances
CellsOf(b, name, instances) ==
  LET c == columnOf(b.headers, name)
      o == columnOf(b.headers, name \o " - options")
  IN  /\ c # 0 => b.row[c] = NumStr(Len(instances))
      /\ o # 0 => b.row[o] = join(impliedTuples(instances), ", ")

\* C14: in a row built by writeToOrders, writeToOrders2 or the rebuild, for
\* every item of the order that comes with instances, the count cell is the
\* number of its instances, whatever qty says, and the options cell is the
\* "(o1, o2, ...)" tuples of the instances with an option, joined by ", ".
C14_CountAndTuples ==
  built.pc \in {"live", "rebuilt", "summary"} =>
    \A b \in builtRows : \A name \in itemNames(built.items) :
      (\A k \in 1..Len(built.items) :
         built.items[k].name = name => InstanceForm(built.items[k]))
        => CellsOf(b, name, instancesNamed(built.items, name))

\* the example order: three sandwich instances under a Menu with sandwich
C14_Witness ==
  /\ built.pc = "rebuilt"
  /\ built.accepted
  /\ Len(built.items) = 1
  /\ built.items[1].qty = 3
  /\ \A b \in builtRows :
       /\ Cell(b.row, columnOf(b.headers, "sandwich")) = "3"
       /\ Cell(b.row, columnOf(b.headers, "sandwich - options"))
            = "(egg, croissant), (egg, croissant), (no egg, muffin)"

\* the instances with at least one selected option
withOption(instances) == SelectSeq(instances, LAMBDA inst : Len(filterBoolean(inst)) > 0)

\* C15: an instance without any selected option counts in the count cell of
\* its item but leaves no tuple, and no "()", in the options cell, and no
\* entry in the aggregate of that cell's column.
C15_EmptyInstanceCountsOnly ==
  built.pc \in {"live", "rebuilt", "summary"} =>
    \A b \in builtRows : \A name \in itemNames(built.items) :
      LET instances == instancesNamed(built.items, name)
          c == columnOf(b.headers, name)
          o == columnOf(b.headers, name \o " - options")
      IN  /\ c # 0 => b.row[c] = NumStr(Len(instances))
          /\ o # 0 =>
               /\ ~includes(b.row[o], "()")
               /\ Len(decodeCell(b.row[o])) = Len(withOption(instances))
               /\ aggregateOptions(<< b.row >>, o)
                    = expectedTotals(impliedTuples(withOption(instances)))

\* two sandwich instances, one with an option and one without: count 2, one tuple
C15_Witness ==
  /\ built.pc = "rebuilt"
  /\ built.accepted
  /\ Len(built.items) = 1
  /\ built.items[1].instances = << <<"egg", "">>, <<"", "">> >>
  /\ \A b \in builtRows :
       /\ Cell(b.row, columnOf(b.headers, "sandwich")) = "2"
       /\ Cell(b.row, columnOf(b.headers, "sandwich - options")) = "(egg)"
       /\ aggregateOptions(<< b.row >>, columnOf(b.headers, "sandwich - options")) = "1x(egg)"

\* C16: an order with a legacy line item (qty and selectedOptions, no
\* instances) is ingested live and rebuilt, and in every row built the cells
\* of the item are those of qty instances with the selected options, a
\* missing qty counting as 0 and a missing selectedOptions as no option.
C16_LegacyAsInstances ==
  (built.pc \in {"rebuilt", "summary"}
     /\ \E k \in 1..Len(built.items) : ~InstanceForm(built.items[k]))
    => /\ built.accepted
       /\ \A b \in builtRows : \A name \in itemNames(built.items) :
            CellsOf(b, name, instancesNamed(built.items, name))

\* the line items whose name is the header of a column, or has an options column
resolved(items, headers) ==
  SelectSeq(items, LAMBDA item : columnOf(headers, item.name) # 0
                                   \/ columnOf(headers, item.name \o " - options") # 0)

C20_SummaryListsItemWithoutTuples ==
  built.pc = "summary" =>
    LET headers == built.rebuilt[1]
        data == DataRows(built.rebuilt)
    IN  \A o \in optionsColumns(headers) :
          LET name == SubSeq(headers[o], 1, Len(headers[o]) - Len(" - options"))
              c == columnOf(headers, name)
          IN  (c # 0 /\ sumColumn(built.rebuilt, c, 2, 1 + Len(data)) > 0
                 /\ columnTuples(data, o) = <<>>)
                => /\ aggregateOptions(data, o) = ""
                   /\ \E k \in 1..Len(built.summary) :
                        built.summary[k]
                          = << name, NumStr(sumColumn(built.rebuilt, c, 2, 1 + Len(data))),
                               NoOptionsMarker >>

\* the row is the kitchen row of the order under the headers
KitchenRowOf(headers, row, q) ==
  /\ << Cell(row, 2), Cell(row, 3), Cell(row, 4), Cell(row, 5) >>
       = << q.name, q.phone, q.delivery, q.email >>
  /\ \A name \in itemNames(q.items) :
       CellsOf([headers |-> headers, row |-> row], name, instancesNamed(q.items, name))

\* C18: when doPost has accepted an order while the header row of Orders
\* lacked the column of one of its items, the last entry of orders_json
\* holds the order's line items in full; and once the headers were rebuilt
\* from the Menu and buildOrdersFromJson has run, Orders has, for every
\* accepted order, a row with the counts and tuples of its items.
C18_JournalKeepsUnknownItems ==
  /\ (run.op = "idle" /\ done.op = "doPost" /\ done.msg = "OK"
        /\ \E name \in itemNames(posted[Len(posted)].items) : columnOf(Orders[1], name) = 0)
       => /\ JournalEntries # <<>>
          /\ Cell(JournalEntries[Len(JournalEntries)], 6)
               = JSONstringify(posted[Len(posted)].items)
  /\ (Returned /\ ValidHeader) =>
       \A p \in 1..Len(posted) : \E k \in 1..Len(DataRows(Orders)) :
         KitchenRowOf(Orders[1], DataRows(Orders)[k], posted[p])

(***************************************************************************)
(* Properties of abbreviate and of the formatter's segments                *)
(***************************************************************************)
\* the segments the totals text was put together from
segmentsOf == [k \in 1..Len(pipe.cells) |-> pipe.cells[k][1]]

\* the segment is digits, "x(", one or more characters and ")"
HasCountTupleShape(seg) ==
  \E d \in 1..Len(seg) :
    /\ \A i \in 1..d : IsDigit(Char(seg, i))
    /\ Len(seg) >= d + 4
    /\ SubSeq(seg, d + 1, d + 2) = "x("
    /\ Char(seg, Len(seg)) = ")"

\* the text between "x(" and the closing ")" of a segment of that shape
optionsIn(seg) ==
  LET open == CHOOSE i \in 1..Len(seg) : Char(seg, i) = "(" /\ \A j \in 1..(i - 1) : Char(seg, j) # "("
  IN  SubSeq(seg, open + 1, Len(seg) - 1)

\* the code of an option text: the dictionary's code when the trimmed text
\* is a key in any case, else the text in upper case when it is at most
\* three characters long, else its first two characters in upper case
expectedCode(text) ==
  LET t == trim(text)
      keys == {k \in 1..Len(abbreviations) : abbreviations[k][1] = toLowerCase(t)}
  IN  IF keys # {} THEN abbreviations[CHOOSE k \in keys : TRUE][2]
      ELSE IF Len(t) <= 3 THEN toUpperCase(t)
      ELSE toUpperCase(SubSeq(t, 1, 2))

\* C21: abbreviate gives for every option text the code of expectedCode:
\* the dictionary's code for a key in any case, else the length-based
\* fallback; a totals text of one segment with one option is formatted to
\* the count and that code.
C21_AbbreviateTotal ==
  pipe.pc = "formatted" =>
    \A k \in 1..Len(segmentsOf) :
      LET seg == segmentsOf[k]
      IN  (HasCountTupleShape(seg) /\ ~includes(seg, ", ")) =>
            /\ abbreviate(optionsIn(seg)) = expectedCode(optionsIn(seg))
            /\ Len(segmentsOf) = 1 =>
                 pipe.shorthand
                   = SubSeq(seg, 1, Len(seg) - Len(optionsIn(seg)) - 1)
                     \o expectedCode(optionsIn(seg)) \o ")"

\* what a segment becomes: itself when it has not the shape of a count and
\* a tuple, else what the formatter makes of it on its own
expectedSegment(seg) == IF HasCountTupleShape(seg) THEN formatKitchenShorthand(seg) ELSE seg

\* C22: the formatted text is the segments' own results joined by ", " in
\* the segments' order, a segment that has not the shape "<digits>x(...)"
\* standing for itself.
C22_UnshapedSegmentKept ==
  (pipe.pc = "formatted" /\ Len(segmentsOf) > 0) =>
    pipe.shorthand = join([k \in 1..Len(segmentsOf) |-> expectedSegment(segmentsOf[k])], ", ")

\* a text without the shape before a segment that is abbreviated
C22_Witness ==
  /\ pipe.pc = "formatted"
  /\ pipe.totals = "x(hot), 1x(Egg)"
  /\ pipe.shorthand = "x(hot), 1x(E)"

\* an execution of "Archive & Clear Orders" that came to its end
Archived == run.op = "idle" /\ done.op = "archiveAndClear" /\ done.msg = "archive created"

\* C23: once "Archive & Clear Orders" has run on a spreadsheet whose tabs
\* were empty before the orders were posted, orders_json holds no order
\* entry, Orders holds at most a header row, and Menu is what it was.
C23_ArchiveClearsJournalAndOrders ==
  (Archived /\ journalAtStart = <<>>) =>
    /\ JournalEntries = <<>>
    /\ Len(Orders) <= 1
    /\ Len(Orders) = 1 => (Cell(Orders[1], 1) = "Date" /\ ~Parsable(Orders[1]))
    /\ sheets["Menu"] = MenuSheet

\* C24: orders_json only grows, and only by doPost: the step in which
\* doPost takes an order appends that order's row below the rows there
\* are, and every other step of doPost, of a rebuild, of the header
\* rebuild, of the totals refresh and of the archive leaves the rows of
\* orders_json as they are.
C24_JournalAppendOnly ==
  [][IF run.op = "idle" /\ run'.op = "doPost"
     THEN sheets'["orders_json"]
            = Append(sheets["orders_json"], rawOrderRow(now(clock'), run'.payload))
     ELSE sheets'["orders_json"] = sheets["orders_json"]]_vars

\* an execution of "Refresh Totals" that called updateTotalsRow
Refreshed == run.op = "idle" /\ done.op = "refreshTotals" /\ done.msg = "totals refreshed"

\* C25: updateTotalsRow leaves exactly one TOTALS row, as the last row,
\* below the data rows the sheet held, in their order, however many TOTALS
\* rows there were and wherever they stood; applied to its own result it
\* returns that result.
C25_TotalsNormalizedIdempotent ==
  Refreshed =>
    /\ Len(TotalsRows(Orders)) = 1
    /\ IsTotals(Orders[Len(Orders)])
    /\ Orders[1] = done.previous[1]
    /\ DataRows(Orders) = DataRows(done.previous)
    /\ updateTotalsRow(Orders) = Orders

\* two TOTALS rows, one above the data rows and one between them, are
\* replaced by one below the two data rows
C25_Witness ==
  /\ Refreshed
  /\ Len(done.previous) = 5
  /\ IsTotals(done.previous[2]) /\ IsData(done.previous[3])
  /\ IsTotals(done.previous[4]) /\ IsData(done.previous[5])
  /\ Orders = << done.previous[1], done.previous[3], done.previous[5], Orders[4] >>
  /\ IsTotals(Orders[4])

\* the kitchen sheet the posted orders are written to
Orders2 == sheets["Orders-2"]

\* both executions of doPost have answered
BothPosted == \A p \in Callers : calls[p].pc = "done"

\* C26: when two executions of doPost that ran at the same time have both
\* answered, the kitchen sheet holds below the row of the earlier order one
\* data row for each of the two orders, and exactly one TOTALS row, which
\* is the last row and sums all rows between the header and itself.
C26_InterleavedPostsKeepBothRows ==
  BothPosted =>
    /\ Len(DataRows(Orders2)) = 3
    /\ Cell(DataRows(Orders2)[1], 1) = "day1"
    /\ \E a, b \in 2..3 :
         /\ a # b
         /\ Cell(DataRows(Orders2)[a], 2) = calls[1].payload.name
         /\ Cell(DataRows(Orders2)[b], 2) = calls[2].payload.name
    /\ Len(TotalsRows(Orders2)) = 1
    /\ Orders2[Len(Orders2)]
         = updateTotalsRow_totalsData(headerRow(Orders2), Len(Orders2) - 1)

\* text made of tuples: nothing, or text from an opening to a closing
\* parenthesis
IsTupleText(cell) ==
  cell = "" \/ (Len(cell) >= 2 /\ Char(cell, 1) = "(" /\ Char(cell, Len(cell)) = ")")

\* C27: in every row the builders write for an order, the cells under
\* Date, Name, Phone, Delivery and Email are the order's timestamp and
\* customer fields, and every cell under an "<item> - options" header is
\* empty or tuple text, whatever the line items are named.
C27_BaseCellsAndOptionsCells ==
  built.pc \in {"live", "rebuilt", "summary"} =>
    \A b \in builtRows :
      /\ b.row[1] \in {now(1), "day1"}
      /\ << b.row[2], b.row[3], b.row[4], b.row[5] >> = << "Ann", "555-1", "pickup", "a@x.io" >>
      /\ \A k \in optionsColumns(b.headers) : IsTupleText(b.row[k])

\* the sum of the counts of a totals text "<n>x(...), <n>x(...)", from
\* position i on; text that does not start with a count holds none
RECURSIVE sumOfCounts(_, _)
sumOfCounts(cell, i) ==
  LET d == digitRun(cell, i)
  IN  IF i > Len(cell) \/ d < i \/ charAt(cell, d + 1) # "x" \/ charAt(cell, d + 2) # "("
      THEN 0
      ELSE LET closing == IF \E j \in (d + 3)..Len(cell) : Char(cell, j) = ")"
                          THEN CHOOSE j \in (d + 3)..Len(cell) :
                                 Char(cell, j) = ")" /\ \A h \in (d + 3)..(j - 1) : Char(cell, h) # ")"
                          ELSE Len(cell)
           IN  decimal(cell, i, d, 0) + sumOfCounts(cell, closing + 3)

\* the number of instances with an option the posted orders hold of the item
RECURSIVE instancesWithOption(_, _)
instancesWithOption(orders, name) ==
  IF Len(orders) = 0 THEN 0
  ELSE Len(withOption(instancesNamed(Head(orders).items, name)))
       + instancesWithOption(Tail(orders), name)

\* C28: after the orders posted, for every item with an options column the
\* counts in the options cell of the TOTALS row add up to the number of
\* the item's instances that have an option, over all orders posted, and
\* to no more than the sum of the item's count column.
C28_CountsConserved ==
  (run.op = "idle" /\ done.op = "doPost" /\ done.msg = "OK") =>
    LET rows == sheets["Orders-2"]
        data == DataRows(rows)
    IN  \A k \in optionsColumns(rows[1]) :
          LET name == SubSeq(rows[1][k], 1, Len(rows[1][k]) - Len(" - options"))
              c == columnOf(rows[1], name)
              total == sumOfCounts(Cell(rows[Len(rows)], k), 1)
          IN  /\ total = instancesWithOption(posted, name)
              /\ c # 0 => total <= sumColumn(rows, c, 2, Len(rows) - 1)

\* the rows of Orders that carry the date of an order entry of orders_json
JournalOrderRows(rows) ==
  {rows[k] : k \in {j \in 1..Len(rows) :
                      \E e \in 1..Len(JournalEntries) : Cell(rows[j], 1) = Cell(JournalEntries[e], 1)}}

\* C29: a run of "Rebuild Orders Headers" leaves in Orders the header row
\* derived from the Menu and nothing else, and leaves orders_json as it
\* is; a row of an order of orders_json comes into Orders only by a step
\* of buildOrdersFromJson.
C29_HeaderRebuildClearsProjection ==
  [][/\ (run.op = "idle" /\ run'.op = "idle" /\ done'.op = "rebuildOrdersHeaders") =>
          /\ sheets'["Orders"] = initializeOrdersHeaders(sheets["Menu"])
          /\ Len(sheets'["Orders"]) = 1
          /\ sheets'["orders_json"] = sheets["orders_json"]
          /\ sheets'["Menu"] = sheets["Menu"]
     /\ ~(JournalOrderRows(sheets'["Orders"]) \subseteq JournalOrderRows(sheets["Orders"])) =>
          run.op = "buildOrdersFromJson"]_vars

\* the headers were rebuilt after a rebuild had put the orders of
\* orders_json and a TOTALS row into Orders
C29_Witness ==
  /\ run.op = "idle"
  /\ done.op = "rebuildOrdersHeaders"
  /\ lastRebuild.valid
  /\ Len(DataRows(lastRebuild.result)) >= 1
  /\ Len(TotalsRows(lastRebuild.result)) = 1
  /\ Orders = << SchemaOfMenu >>
  /\ Len(JournalEntries) >= 1
  /\ sheets["orders_json"] = journalAtStart

\* the names that several line items of the order carry
repeatedNames(items) ==
  {name \in itemNames(items) : Cardinality({k \in 1..Len(items) : items[k].name = name}) >= 2}

\* C30: when an order that is ingested names an item in several line
\* items, every row built for it, live or by the rebuild, has in the
\* item's count cell the number of all their instances and in its options
\* cell their tuples in payload order; the live row and the rebuilt row
\* agree in both cells.
C30_SameNameItemsMerged ==
  (built.pc \in {"rebuilt", "summary"} /\ built.accepted) =>
    \A name \in repeatedNames(built.items) :
      /\ \A b \in builtRows : CellsOf(b, name, instancesNamed(built.items, name))
      /\ \A h \in {name, name \o " - options"} :
           columnOf(built.orders2[1], h) # 0 =>
             /\ columnOf(built.rebuilt[1], h) = columnOf(built.orders2[1], h)
             /\ built.rebuilt[2][columnOf(built.rebuilt[1], h)]
                  = built.orders2[2][columnOf(built.orders2[1], h)]

\* two sandwich line items, of two and of three instances, under a Menu
\* with the sandwich: count 5, the tuples of the first item first
C30_Witness ==
  /\ built.pc = "rebuilt"
  /\ built.accepted
  /\ Len(built.items) = 2
  /\ built.items[1] = Item("sandwich", 5, << <<"egg", "">>, <<"", "">> >>)
  /\ built.items[2].qty = 3
  /\ \A b \in builtRows :
       /\ columnOf(b.headers, "sandwich - options") # 0
       /\ Cell(b.row, columnOf(b.headers, "sandwich")) = "5"
       /\ Cell(b.row, columnOf(b.headers, "sandwich - options"))
            = "(egg), (egg, croissant), (egg, croissant), (no egg, muffin)"

====
